---- MODULE Spec2Model ----
(***************************************************************************)
(* Model of the summarizator bot: the video caption extractor              *)
(* (bot/content_processors/youtube_processor.py) as driven by the link     *)
(* handler (bot/handlers/link_handler.py), the link handler with the       *)
(* naming of documents by the four content processors, and a user's        *)
(* Document Index (bot/rag/rag_manager.py) over its two backing stores,    *)
(* documents.json (bot/storage/file_storage.py) and the vector collection  *)
(* (bot/rag/embedding_store.py).                                           *)
(*                                                                         *)
(* Spec follows one video through extract_content, LinkSpec a user's       *)
(* links through LinkHandler.handle, IndexSpec the calls of a user's       *)
(* RAGManager.  ExtractSpec follows links through classify_url and the     *)
(* extract_content of the four processors, ListSpec the calls that change  *)
(* or read a user's list of documents, UserSpec the calls made for two     *)
(* users over the files and databases of FileStorage, and RaceSpec the     *)
(* steps of add_document calls that run at the same time.  FairSpec is     *)
(* Spec for videos with manual captions only, with every upstream call of  *)
(* the extraction returning.  ShareSpec                                    *)
(* follows handle calls for video links that run at the same time through  *)
(* the one YouTubeProcessor, LostSpec add_document and delete_document     *)
(* calls for different documents that run at the same time, and            *)
(* CommandSpec the /list and /delete commands of a user                    *)
(* (bot/handlers/command_handler.py).                                      *)
(*                                                                         *)
(* Python strings are sequences of one-character strings; a language code  *)
(* is such a string kept as a sequence of tokens.  Optional[str] is a      *)
(* sequence of length 0 (None) or 1 (the string).  A dict is a function    *)
(* whose DOMAIN holds the keys that are present.                           *)
(***************************************************************************)
EXTENDS Integers, Sequences, FiniteSets, TLC

(***************************************************************************)
(* Bounds of the model.                                                    *)
(***************************************************************************)
\* longest list of caption languages the metadata probe reports per kind
MaxCaptions == 1

(***************************************************************************)
(* Values.                                                                 *)
(***************************************************************************)
Range(s) == {s[i] : i \in 1..Len(s)}

\* Optional[str]
None == <<>>
Some(t) == <<t>>

\* Python truthiness of an Optional[str]: None and "" are falsy.
Truthy(o) == o # None /\ o[1] # <<>>

\* language codes
En == <<"en">>
De == <<"de">>
Fr == <<"fr">>
\* the probe reports "language": null
NoLang == <<>>

\* f'{original_lang}-orig'
OrigTrack(lang) == lang \o <<"-orig">>

\* the languages a video can have caption tracks in
CaptionLangs == {En, De, Fr}

\* sequences over S without repetition, of length at most n (dict key order)
RECURSIVE KeyLists(_, _)
KeyLists(S, n) ==
    IF n = 0 THEN {<<>>}
    ELSE {<<>>} \cup {<<x>> \o r : x \in S, r \in KeyLists(S, n - 1)}

NoDupKeyLists(S, n) ==
    {s \in KeyLists(S, n) : \A i, j \in 1..Len(s) : i # j => s[i] # s[j]}

\* the outcome of _get_video_info that stands for None
NoInfo == [failed |-> TRUE]

\* durations (seconds) the probe reports
Durations == {75}

\* the dicts yt-dlp's extract_info returns: subtitles and automatic_captions
\* are always there, language is absent, null or a code, duration is absent
\* or a number
InfoCaptions ==
    [subtitles : NoDupKeyLists(CaptionLangs, MaxCaptions),
     automatic_captions : NoDupKeyLists(CaptionLangs, MaxCaptions)]

WithLanguage(S) ==
    S \cup {[k \in DOMAIN d \cup {"language"} |->
                IF k = "language" THEN l ELSE d[k]] :
            d \in S, l \in {NoLang, En, De}}

WithDuration(S) ==
    S \cup {[k \in DOMAIN d \cup {"duration"} |->
                IF k = "duration" THEN n ELSE d[k]] :
            d \in S, n \in Durations}

Infos == WithDuration(WithLanguage(InfoCaptions))

\* messages of the exceptions the upstream calls raise
ExcMessages ==
    { <<"H","T","T","P"," ","4","2","9">>,
      <<"4","2","9">>,
      <<"H","T","T","P"," ","4","0","4">>,
      <<"d","i","s","a","b","l","e","d">> }

\* the caption tracks the transcript service lists, in listing order
TrackLists ==
    { <<>>, <<En>>, <<De>>, <<Fr, En>>, <<OrigTrack(De)>>, <<Fr>> }

\* the segment texts transcript.fetch() returns
SegmentLists ==
    { <<>>,
      << <<"h","i">> >>,
      << <<"h","i">>, <<"y","o","u">> >>,
      << <<>>, <<>> >> }

\* the contents of the .vtt file a subtitle download leaves
VttFiles ==
    { <<"W","E","B","V","T","T","\n","\n">>,
      <<"W","E","B","V","T","T","\n","\n",
        "0","1"," ","-","-",">"," ","0","2","\n",
        "h","i"," ","<","b",">","y","o","u","<","/","b",">","\n",
        "\n","1","\n","f","o","o">>,
      <<"W","E","B","V","T","T","\n",
        "0","1"," ","-","-",">"," ","0","2","\n",
        "<","c",">"," ","<","/","c",">","\n">> }

(***************************************************************************)
(* String functions.                                                       *)
(***************************************************************************)
IsSpace(c) == c \in {" ", "\t", "\n", "\r"}

IsDigit(c) == c \in {"0","1","2","3","4","5","6","7","8","9"}

\* sub in s
Contains(s, sub) ==
    \E i \in 0..(Len(s) - Len(sub)) :
        \A k \in 1..Len(sub) : s[i + k] = sub[k]

\* s.startswith(p)
StartsWith(s, p) ==
    Len(p) <= Len(s) /\ \A k \in 1..Len(p) : s[k] = p[k]

\* s.isdigit()
IsDigitStr(s) == s # <<>> /\ \A k \in 1..Len(s) : IsDigit(s[k])

\* s.strip()
RECURSIVE LStrip(_)
LStrip(s) == IF s # <<>> /\ IsSpace(s[1]) THEN LStrip(Tail(s)) ELSE s

RECURSIVE RStrip(_)
RStrip(s) ==
    IF s # <<>> /\ IsSpace(s[Len(s)]) THEN RStrip(SubSeq(s, 1, Len(s) - 1))
    ELSE s

Strip(s) == RStrip(LStrip(s))

\* s.split('\n')
RECURSIVE SplitLines(_)
SplitLines(s) ==
    IF \A k \in 1..Len(s) : s[k] # "\n" THEN <<s>>
    ELSE LET p == CHOOSE k \in 1..Len(s) :
                      s[k] = "\n" /\ \A j \in 1..(k - 1) : s[j] # "\n"
         IN <<SubSeq(s, 1, p - 1)>> \o SplitLines(SubSeq(s, p + 1, Len(s)))

\* sep.join(parts)
RECURSIVE Join(_, _)
Join(sep, parts) ==
    IF parts = <<>> THEN <<>>
    ELSE IF Len(parts) = 1 THEN parts[1]
    ELSE parts[1] \o sep \o Join(sep, Tail(parts))

\* re.sub(r'<[^>]+>', '', s)
RECURSIVE RemoveTags(_)
RemoveTags(s) ==
    IF s = <<>> THEN <<>>
    ELSE IF s[1] = "<" /\ \E k \in 3..Len(s) :
                              s[k] = ">" /\ \A j \in 2..(k - 1) : s[j] # ">"
    THEN LET e == CHOOSE k \in 3..Len(s) :
                      s[k] = ">" /\ \A j \in 2..(k - 1) : s[j] # ">"
         IN RemoveTags(SubSeq(s, e + 1, Len(s)))
    ELSE <<s[1]>> \o RemoveTags(Tail(s))

\* re.sub(r'\s+', ' ', s)
RECURSIVE CollapseWhitespace(_)
CollapseWhitespace(s) ==
    IF s = <<>> THEN <<>>
    ELSE IF IsSpace(s[1])
    THEN <<" ">> \o CollapseWhitespace(LStrip(s))
    ELSE <<s[1]>> \o CollapseWhitespace(Tail(s))

\* '429' in str(e)
Has429(msg) == Contains(msg, <<"4","2","9">>)

\* Backoff with a step of 3 seconds
BackoffLinear(attempt) == 3 + attempt * 3

\* the backoff before the next attempt: time.sleep(3 + attempt * 4)
Backoff(attempt) == 3 + attempt * 4

\* the attempts of one retry loop: for attempt in range(3)
MaxAttempts == 3

(***************************************************************************)
(* Subtitle parsing and track selection.                                   *)
(***************************************************************************)
\* the condition of _parse_vtt under which a stripped line is kept
KeepVttLine(line) ==
    /\ line # <<>>
    /\ ~StartsWith(line, <<"W","E","B","V","T","T">>)
    /\ ~Contains(line, <<"-","-",">">>)
    /\ ~StartsWith(line, <<"N","O","T","E">>)
    /\ ~StartsWith(line, <<"S","T","Y","L","E">>)
    /\ ~StartsWith(line, <<":",":","c","u","e">>)
    /\ ~IsDigitStr(line)

\* the list `lines` with the lines that removing the tags leaves empty
RECURSIVE VttLinesWithEmptied(_)
VttLinesWithEmptied(raw) ==
    IF raw = <<>> THEN <<>>
    ELSE LET line == Strip(raw[1])
         IN (IF KeepVttLine(line) THEN <<RemoveTags(line)>> ELSE <<>>)
            \o VttLinesWithEmptied(Tail(raw))

\* the list `lines` that _parse_vtt collects from the raw lines
RECURSIVE VttLines(_)
VttLines(raw) ==
    IF raw = <<>> THEN <<>>
    ELSE LET line == Strip(raw[1])
             text == RemoveTags(line)
         IN (IF KeepVttLine(line) /\ text # <<>> THEN <<text>> ELSE <<>>)
            \o VttLines(Tail(raw))

\* YouTubeProcessor._parse_vtt
ParseVtt(content) ==
    LET lines == VttLines(SplitLines(content))
    IN IF lines # <<>> THEN Some(Join(<<" ">>, lines)) ELSE None

\* self._parse_vtt(f.read()) for every file a download can leave
ParsedVtt == [content \in VttFiles |-> ParseVtt(content)]

\* priority_langs of _fetch_transcript
PriorityLangs(lang) ==
    IF lang # NoLang /\ lang # En THEN <<En, lang, OrigTrack(lang)>>
    ELSE <<En>>

\* the track _fetch_transcript picks: the first priority language that
\* find_transcript knows, else the first listed track, else None
RECURSIVE FindPriority(_, _)
FindPriority(tracks, langs) ==
    IF langs = <<>> THEN None
    ELSE IF langs[1] \in Range(tracks) THEN Some(langs[1])
    ELSE FindPriority(tracks, Tail(langs))

\* SelectTranscript without the fall-back to the first listed track
SelectTranscriptPriorityOnly(tracks, langs) ==
    FindPriority(tracks, langs)

SelectTranscript(tracks, langs) ==
    IF FindPriority(tracks, langs) # None THEN FindPriority(tracks, langs)
    ELSE IF tracks # <<>> THEN Some(tracks[1])
    ELSE None

\* OriginalLang with None as the default, as info.get('language') would give
OriginalLangNoDefault(i) ==
    IF i # NoInfo /\ "language" \in DOMAIN i THEN i.language ELSE NoLang

\* original_lang = info.get('language', 'en') if info else 'en'
OriginalLang(i) ==
    IF i # NoInfo
    THEN (IF "language" \in DOMAIN i THEN i.language ELSE En)
    ELSE En

\* AppendMissing without the `not in langs_to_try` test
AppendAll(list, available) == list \o available

\* the loop of _fetch_transcript_ytdlp that appends the available languages
\* not yet in the list
RECURSIVE AppendMissing(_, _)
AppendMissing(list, available) ==
    IF available = <<>> THEN list
    ELSE AppendMissing(
             IF available[1] \notin Range(list)
             THEN Append(list, available[1]) ELSE list,
             Tail(available))

\* langs_to_try of _fetch_transcript_ytdlp
LangsToTry(lang, i) ==
    LET base == IF lang # En THEN <<En, lang>> ELSE <<En>>
        available == IF i # NoInfo
                     THEN i.subtitles \o i.automatic_captions
                     ELSE <<>>
    IN AppendMissing(base, available)

\* decimal digits of a natural number
RECURSIVE Decimal(_)
Decimal(n) ==
    LET d == <<"0","1","2","3","4","5","6","7","8","9">>
    IN IF n < 10 THEN <<d[n + 1]>> ELSE Decimal(n \div 10) \o <<d[(n % 10) + 1]>>

Unknown == <<"U","n","k","n","o","w","n">>

\* YouTubeProcessor.get_video_duration
VideoDuration(i) ==
    IF i = NoInfo THEN Unknown
    ELSE IF "duration" \notin DOMAIN i \/ i.duration = 0 THEN Unknown
    ELSE LET minutes == i.duration \div 60
             seconds == i.duration % 60
         IN Decimal(minutes) \o <<":">>
            \o (IF seconds < 10 THEN <<"0">> ELSE <<>>) \o Decimal(seconds)

Heading ==
    <<"#"," ","Y","o","u","T","u","b","e"," ","V","i","d","e","o"," ",
      "T","r","a","n","s","c","r","i","p","t","\n","\n">>

RateLimitedError ==
    "YouTube is rate-limiting caption requests. Please try again in a few minutes."

NotFoundError == "No subtitles or captions available for this video"

(***************************************************************************)
(* Values of the link handler and of the Document Index.                   *)
(***************************************************************************)
\* config.max_document_preview_length, as the configuration sets it
PreviewLength == 2

\* the documents a user adds before the model stops the clock
MaxTime == 2

\* the links a user has added before the model handles no further link
MaxLinks == 2

\* the documents a user adds to a list before the model stops the clock
MaxUpserts == 3

\* the documents and messages of all users before the model stops the clock
MaxUserTime == 2

\* the add_document calls of one user for one link
MaxCalls == 2

\* the handle calls for video links that run at a time
MaxRequests == 2

\* n_results of the question handler
NResults == 3

Lower ==
    <<"a","b","c","d","e","f","g","h","i","j","k","l","m",
      "n","o","p","q","r","s","t","u","v","w","x","y","z">>
Upper ==
    <<"A","B","C","D","E","F","G","H","I","J","K","L","M",
      "N","O","P","Q","R","S","T","U","V","W","X","Y","Z">>

IsLetter(c) == c \in Range(Lower) \cup Range(Upper)

\* str.upper and str.lower of one character
ToUpper(c) ==
    IF c \in Range(Lower)
    THEN Upper[CHOOSE i \in 1..Len(Lower) : Lower[i] = c]
    ELSE c
ToLower(c) ==
    IF c \in Range(Upper)
    THEN Lower[CHOOSE i \in 1..Len(Upper) : Upper[i] = c]
    ELSE c

\* a character of the classes \w and [\w-]
IsWordChar(c) == IsLetter(c) \/ IsDigit(c) \/ c = "_"
IsSlugChar(c) == IsWordChar(c) \/ c = "-"

\* the literal lit stands in s at position i
MatchAt(s, i, lit) ==
    /\ i >= 1
    /\ i + Len(lit) - 1 <= Len(s)
    /\ SubSeq(s, i, i + Len(lit) - 1) = lit

\* s[i:] up to the first character of the set stops, Python's greedy [^...]*
RECURSIVE UpTo(_, _, _)
UpTo(s, i, stops) ==
    IF i > Len(s) \/ s[i] \in stops THEN <<>>
    ELSE <<s[i]>> \o UpTo(s, i + 1, stops)

\* the links a user sends
WebUrl == <<"h", "t", "t", "p", ":", "/", "/", "a", ".", "i", "o", "/", "x">>
VideoUrl == <<"h", "t", "t", "p", "s", ":", "/", "/", "y", "o", "u", "t", "u", ".", "b", "e", "/", "v", "1">>
RepoUrl == <<"h", "t", "t", "p", "s", ":", "/", "/", "g", "i", "t", "h", "u", "b", ".", "c", "o", "m", "/", "o", "/", "r", ".", "g", "i", "t">>
PdfUrl == <<"h", "t", "t", "p", ":", "/", "/", "a", ".", "i", "o", "/", "m", "y", "%", "2", "0", "d", "o", "c", "-", "v", "2", ".", "p", "d", "f">>
DownloadUrl == <<"h", "t", "t", "p", ":", "/", "/", "a", ".", "i", "o", "/", "d", "o", "w", "n", "l", "o", "a", "d", ".", "p", "d", "f">>
Urls == {WebUrl, VideoUrl, RepoUrl, PdfUrl, DownloadUrl}

\* the texts an extraction returns
Contents == {<<"a">>, <<"a", "b", "c">>}
LinkContents == {<<"a", "b", "c">>}

\* the links and the names the calls of the Document Index are made with
IndexUrls == {WebUrl, PdfUrl}
Titles == {<<"T">>, <<"U">>}

\* LinkDetector.YOUTUBE_PATTERN.search(url)
IsYoutubeUrl(url) ==
    \E i \in 1..Len(url) :
        \E lit \in {<<"y", "o", "u", "t", "u", "b", "e", ".", "c", "o", "m", "/", "w", "a", "t", "c", "h", "?", "v", "=">>, <<"y", "o", "u", "t", "u", ".", "b", "e", "/">>} :
            /\ MatchAt(url, i, lit)
            /\ i + Len(lit) <= Len(url)
            /\ IsSlugChar(url[i + Len(lit)])

\* LinkDetector.GITHUB_PATTERN.search(url)
IsGithubUrl(url) ==
    \E i \in 1..Len(url) :
        \E lit \in {<<"h", "t", "t", "p", ":", "/", "/", "g", "i", "t", "h", "u", "b", ".", "c", "o", "m", "/">>, <<"h", "t", "t", "p", "s", ":", "/", "/", "g", "i", "t", "h", "u", "b", ".", "c", "o", "m", "/">>} :
            /\ MatchAt(url, i, lit)
            /\ \E j \in (i + Len(lit) + 1)..(Len(url) - 1) :
                  /\ \A k \in (i + Len(lit))..(j - 1) : IsSlugChar(url[k])
                  /\ url[j] = "/"
                  /\ IsSlugChar(url[j + 1])

\* LinkDetector.PDF_PATTERN.search(url)
IsPdfUrl(url) ==
    \E i \in 1..Len(url) :
        /\ i + 3 <= Len(url)
        /\ [k \in 1..4 |-> ToLower(url[i + k - 1])] = <<".", "p", "d", "f">>
        /\ i + 3 = Len(url) \/ url[i + 4] \in {"?", "#"}

\* a classify_url that tests for PDF links first
ClassifyUrlPdfFirst(url) ==
    IF IsPdfUrl(url) THEN "pdf"
    ELSE IF IsYoutubeUrl(url) THEN "youtube"
    ELSE IF IsGithubUrl(url) THEN "github"
    ELSE "web"

\* LinkDetector.classify_url
ClassifyUrl(url) ==
    IF IsYoutubeUrl(url) THEN "youtube"
    ELSE IF IsGithubUrl(url) THEN "github"
    ELSE IF IsPdfUrl(url) THEN "pdf"
    ELSE "web"

\* hashlib.md5(url.encode()).hexdigest(): a function of the url alone, taken
\* to give different urls different digests
Md5(url) == <<"md5(">> \o url \o <<")">>

DocIds == {Md5(url) : url \in Urls}

\* name[:57] + "..." if len(name) > 60 else name
Shorten(name) ==
    IF Len(name) > 60 THEN SubSeq(name, 1, 57) \o <<".", ".", ".">> ELSE name

\* a title of 61 characters
LongTitle == [i \in 1..61 |-> "t"]

\* what the page fetched by WebProcessor.get_document_name holds in its
\* <title>: no tag or no string, or the string
PageTitles == {None, Some(<<" ", "T", " ">>), Some(LongTitle)}

\* the metadata of the video as get_document_name sees it
VideoId == <<"v", "1">>
NamedInfos ==
    {[id |-> VideoId],
     [id |-> VideoId, title |-> <<>>],
     [id |-> VideoId, title |-> <<"V">>]}

\* urlparse(url).netloc and urlparse(url).path of an http(s) url
AfterScheme(url) ==
    IF \E i \in 1..Len(url) : MatchAt(url, i, <<":", "/", "/">>)
    THEN (CHOOSE i \in 1..Len(url) :
            /\ MatchAt(url, i, <<":", "/", "/">>)
            /\ \A j \in 1..(i - 1) : ~MatchAt(url, j, <<":", "/", "/">>)) + 3
    ELSE 1
NetLoc(url) == UpTo(url, AfterScheme(url), {"/", "?", "#"})
UrlPath(url) ==
    UpTo(url, AfterScheme(url) + Len(NetLoc(url)), {"?", "#"})

\* urllib.parse.unquote for the escapes of the links above
RECURSIVE Unquote(_)
Unquote(s) ==
    IF s = <<>> THEN <<>>
    ELSE IF MatchAt(s, 1, <<"%", "2", "0">>) THEN <<" ">> \o Unquote(SubSeq(s, 4, Len(s)))
    ELSE IF MatchAt(s, 1, <<"%", "2", "D">>) THEN <<"-">> \o Unquote(SubSeq(s, 4, Len(s)))
    ELSE IF MatchAt(s, 1, <<"%", "5", "F">>) THEN <<"_">> \o Unquote(SubSeq(s, 4, Len(s)))
    ELSE <<s[1]>> \o Unquote(Tail(s))

\* the positions of character c in s
Positions(s, c) == {i \in 1..Len(s) : s[i] = c}
Max(S) == CHOOSE x \in S : \A y \in S : y <= x
Min(S) == CHOOSE x \in S : \A y \in S : x <= y

\* pathlib.Path(path).stem: the last component without its last suffix
RECURSIVE DropTrailingSlashes(_)
DropTrailingSlashes(p) ==
    IF p # <<>> /\ p[Len(p)] = "/"
    THEN DropTrailingSlashes(SubSeq(p, 1, Len(p) - 1))
    ELSE p
PathName(path) ==
    LET p == DropTrailingSlashes(path)
    IN IF Positions(p, "/") = {} THEN p
       ELSE SubSeq(p, Max(Positions(p, "/")) + 1, Len(p))
PathStem(path) ==
    LET name == PathName(path)
        dots == Positions(name, ".") \ {1, Len(name)}
    IN IF dots = {} THEN name ELSE SubSeq(name, 1, Max(dots) - 1)

\* str.replace(old, new) for one character
ReplaceChar(s, old, new) ==
    [i \in 1..Len(s) |-> IF s[i] = old THEN new ELSE s[i]]

\* str.title(): a letter is upper case after a character that is no letter
\* and lower case after a letter
TitleCase(s) ==
    [i \in 1..Len(s) |->
        IF i > 1 /\ IsLetter(s[i - 1]) THEN ToLower(s[i]) ELSE ToUpper(s[i])]

\* re.search(r'github\.com/([^/]+)/([^/]+)', url): owner and repo, or None
GithubMatches(url) ==
    {i \in 1..Len(url) :
        /\ MatchAt(url, i, <<"g", "i", "t", "h", "u", "b", ".", "c", "o", "m", "/">>)
        /\ UpTo(url, i + 11, {"/"}) # <<>>
        /\ i + 11 + Len(UpTo(url, i + 11, {"/"})) <= Len(url)
        /\ UpTo(url, i + 12 + Len(UpTo(url, i + 11, {"/"})), {"/"}) # <<>>}
ParseGithubUrl(url) ==
    IF GithubMatches(url) = {} THEN None
    ELSE LET i == Min(GithubMatches(url))
             owner == UpTo(url, i + 11, {"/"})
             repo == UpTo(url, i + 12 + Len(owner), {"/"})
         IN Some([owner |-> owner,
                  repo |-> IF Len(repo) >= 4
                              /\ SubSeq(repo, Len(repo) - 3, Len(repo)) = <<".", "g", "i", "t">>
                           THEN SubSeq(repo, 1, Len(repo) - 4)
                           ELSE repo])

\* YouTubeProcessor._extract_video_id: the id, or None for the ValueError
VideoIdAfter(url, lits) ==
    LET at == {i \in 1..Len(url) :
                 \E lit \in lits :
                    /\ MatchAt(url, i, lit)
                    /\ UpTo(url, i + Len(lit), {"&", "?", "/"}) # <<>>}
    IN IF at = {} THEN None
       ELSE LET i == Min(at)
                lit == CHOOSE l \in lits :
                          /\ MatchAt(url, i, l)
                          /\ UpTo(url, i + Len(l), {"&", "?", "/"}) # <<>>
            IN Some(UpTo(url, i + Len(lit), {"&", "?", "/"}))
ExtractVideoId(url) ==
    IF VideoIdAfter(url, {<<"y", "o", "u", "t", "u", "b", "e", ".", "c", "o", "m", "/", "w", "a", "t", "c", "h", "?", "v", "=">>, <<"y", "o", "u", "t", "u", ".", "b", "e", "/">>}) # None
    THEN VideoIdAfter(url, {<<"y", "o", "u", "t", "u", "b", "e", ".", "c", "o", "m", "/", "w", "a", "t", "c", "h", "?", "v", "=">>, <<"y", "o", "u", "t", "u", ".", "b", "e", "/">>})
    ELSE IF VideoIdAfter(url, {<<"y", "o", "u", "t", "u", "b", "e", ".", "c", "o", "m", "/", "e", "m", "b", "e", "d", "/">>}) # None
    THEN VideoIdAfter(url, {<<"y", "o", "u", "t", "u", "b", "e", ".", "c", "o", "m", "/", "e", "m", "b", "e", "d", "/">>})
    ELSE VideoIdAfter(url, {<<"y", "o", "u", "t", "u", "b", "e", ".", "c", "o", "m", "/", "v", "/">>})

(***************************************************************************)
(* State.                                                                  *)
(***************************************************************************)
VARIABLES
    pc,               \* where the handling of the current link stands
    last_video_info,  \* YouTubeProcessor._last_video_info
    info,             \* extract_content: info
    original_lang,    \* extract_content: original_lang
    subtitle_text,    \* extract_content: subtitle_text
    rate_limited,     \* extract_content: rate_limited
    attempt,          \* _fetch_transcript: attempt
    priority_langs,   \* _fetch_transcript: priority_langs
    langs_to_try,     \* _fetch_transcript_ytdlp: langs_to_try
    langIdx,          \* _fetch_transcript_ytdlp: position of lang in the list
    dlAttempt,        \* _download_subtitle_ytdlp: attempt
    result,           \* what extract_content returned or raised
    duration,         \* _generate_summary: duration
    t2log,            \* history: the outcome of every transcript-service call
    sleeps,           \* history: the delays slept in the latest retry loop
    dlCount,          \* history: the downloads of the latest download loop
    lastDl,           \* history: language and outcome of the latest download
    hpc,              \* LinkHandler.handle: the step the handled link is at
    req,              \* LinkHandler.handle: url, content_type, content, doc_name
    documents_file,   \* FileStorage: the user's documents.json
    collection,       \* EmbeddingStore.collection: the user's entries
    clock,            \* datetime.now()
    ret,              \* history: the latest operation and how it ended
    failed,           \* history: an operation of a backing store has failed
    deleted,          \* history: how each doc_id was last deleted
    probed,           \* GitHubProcessor.extract_content: the probes made
    disk,             \* FileStorage: the files under data_dir, by path
    chroma,           \* the collection of the database at each db_path
    rag_managers,     \* MessageRouter._rag_managers
    upserted,         \* the Documents each user's add_document has built
    sent,             \* the Messages saved for each user, in order
    calls,            \* the add_document calls in flight, each with its locals
    truncated,        \* documents.json is open for writing and still empty
    ready,            \* the calls the event loop is to resume, in order
    landed,           \* the call whose write each store holds
    handles,          \* the LinkHandler.handle calls in flight for video links
    command           \* history: the latest command, its arguments and the reply

\* the locals of the video extraction
videoVars ==
    <<pc, info, original_lang, subtitle_text, rate_limited, attempt,
      priority_langs, langs_to_try, langIdx, dlAttempt, result, duration,
      t2log, sleeps, dlCount, lastDl>>

\* the link handler, the user's Document Index and their history
indexVars ==
    <<hpc, req, documents_file, collection, clock, ret, failed, deleted>>

\* the state of the content processors and of the storage of all users
\* the state of one user's Document Index but for what a call returned
indexVarsButRet ==
    <<hpc, req, documents_file, collection, clock, failed, deleted>>

userVars == <<disk, chroma, rag_managers, upserted, sent>>
raceVars == <<calls, truncated, ready, landed>>
extraVars == <<probed, userVars, raceVars, handles, command>>

vars == <<videoVars, last_video_info, indexVars, extraVars>>

NoResult == [status |-> "none", text |-> <<>>, error |-> ""]
NoDownload == [lang |-> NoLang, kind |-> "none", text |-> None]

\* the locals of one handled link before extract_content has set them
FreshRequest ==
    /\ info = NoInfo
    /\ original_lang = NoLang
    /\ subtitle_text = None
    /\ rate_limited = FALSE
    /\ attempt = 0
    /\ priority_langs = <<>>
    /\ langs_to_try = <<>>
    /\ langIdx = 0
    /\ dlAttempt = 0
    /\ result = NoResult
    /\ duration = <<>>
    /\ t2log = <<>>
    /\ sleeps = <<>>
    /\ dlCount = 0
    /\ lastDl = NoDownload

\* no link is being handled
NoRequest ==
    [url |-> <<>>, content_type |-> "", content |-> <<>>, doc_name |-> <<>>]

\* no operation has ended yet
NoReturn == [op |-> "none", status |-> "none"]

\* a new user: no documents.json, an empty collection
IndexStart ==
    /\ hpc = "idle"
    /\ req = NoRequest
    /\ documents_file = None
    /\ collection = <<>>
    /\ clock = 0
    /\ ret = NoReturn
    /\ failed = FALSE
    /\ deleted = [id \in DocIds |-> "no"]

\* update.effective_user.id of the users, and str() of it
Users == {7, 71}
UserId(user) == Decimal(user)

\* FileStorage.data_dir
DataDir == <<"d", "a", "t", "a">>

\* a _get_user_dir that gives every user the data directory itself
UserDirShared(user_id) == DataDir

\* FileStorage._get_user_dir, _get_documents_file, _get_messages_file and
\* get_user_db_path: data_dir / str(user_id) and the paths under it
UserDir(user_id) == DataDir \o <<"/">> \o user_id
DocumentsFile(user_id) == UserDir(user_id) \o <<"/", "d", "o", "c", "u", "m", "e", "n", "t", "s", ".", "j", "s", "o", "n">>
MessagesFile(user_id) == UserDir(user_id) \o <<"/", "m", "e", "s", "s", "a", "g", "e", "s", ".", "j", "s", "o", "n", "l">>
GetUserDbPath(user_id) == UserDir(user_id) \o <<"/", "c", "h", "r", "o", "m", "a", "_", "d", "b">>

\* the paths of the files and of the databases of the users
FilePaths ==
    {DocumentsFile(UserId(user)) : user \in Users}
    \cup {MessagesFile(UserId(user)) : user \in Users}
DbPaths == {GetUserDbPath(UserId(user)) : user \in Users}

\* no command has been handled
NoCommand == [name |-> "none", args |-> <<>>, reply |-> "none", items |-> <<>>]

\* the handle calls for video links and the locals of one that has not begun
Requests == 1..MaxRequests
NoHandle == [pc |-> "new", info |-> NoInfo, doc_name |-> <<>>, duration |-> <<>>]

\* the add_document calls and the locals of one that has not begun
Calls == 1..MaxCalls
NoCall == [pc |-> "new", title |-> <<>>, document |-> <<>>, documents |-> <<>>]

\* no processor is extracting; no user has a file, a database holds an
\* empty collection once it is opened, no RAGManager is cached
ExtraStart ==
    /\ probed = <<>>
    /\ disk = [path \in FilePaths |-> None]
    /\ chroma = [path \in DbPaths |-> <<>>]
    /\ rag_managers = <<>>
    /\ upserted = [user \in Users |-> {}]
    /\ sent = [user \in Users |-> <<>>]
    /\ calls = [call \in Calls |-> NoCall]
    /\ truncated = FALSE
    /\ ready = <<>>
    /\ landed = [file |-> 0, index |-> 0]
    /\ handles = [request \in Requests |-> NoHandle]
    /\ command = NoCommand

Init ==
    /\ pc = "idle"
    /\ last_video_info = NoInfo
    /\ FreshRequest
    /\ IndexStart
    /\ ExtraStart

(***************************************************************************)
(* LinkHandler.handle for a link classified as youtube.                    *)
(***************************************************************************)
\* handle is entered and calls extract_content
Handle ==
    /\ pc \in {"idle", "done"}
    /\ pc' = "probe"
    /\ info' = NoInfo
    /\ original_lang' = NoLang
    /\ subtitle_text' = None
    /\ rate_limited' = FALSE
    /\ attempt' = 0
    /\ priority_langs' = <<>>
    /\ langs_to_try' = <<>>
    /\ langIdx' = 0
    /\ dlAttempt' = 0
    /\ result' = NoResult
    /\ duration' = <<>>
    /\ t2log' = <<>>
    /\ sleeps' = <<>>
    /\ dlCount' = 0
    /\ lastDl' = NoDownload
    /\ UNCHANGED <<last_video_info, indexVars, extraVars>>

\* a metadata probe that is still answered while the transcript service is
\* called
GetVideoInfoAlongside ==
    /\ pc \in {"probe", "tier2"}
    /\ \E i \in Infos \cup {NoInfo} :
        /\ info' = i
        /\ last_video_info' = i
        /\ original_lang' = OriginalLang(i)
    /\ rate_limited' = FALSE
    /\ attempt' = 0
    /\ pc' = "tier2"
    /\ UNCHANGED <<subtitle_text, priority_langs, langs_to_try, langIdx,
                   dlAttempt, result, duration, t2log, sleeps, dlCount,
                   lastDl, indexVars, extraVars>>

\* step 1 of extract_content: the metadata probe
GetVideoInfo ==
    /\ pc = "probe"
    /\ \E i \in Infos \cup {NoInfo} :
        /\ info' = i
        /\ last_video_info' = i
        /\ original_lang' = OriginalLang(i)
    /\ rate_limited' = FALSE
    /\ attempt' = 0
    /\ pc' = "tier2"
    /\ UNCHANGED <<subtitle_text, priority_langs, langs_to_try, langIdx,
                   dlAttempt, result, duration, t2log, sleeps, dlCount,
                   lastDl, indexVars, extraVars>>

(***************************************************************************)
(* The end of extract_content.                                             *)
(***************************************************************************)
\* subtitle_text = re.sub(r'\s+', ' ', subtitle_text).strip()
NormalizeTranscript(text) == Strip(CollapseWhitespace(text))

\* lines 75-84 of extract_content, reached with subtitle_text = text and
\* rate_limited = limited: raise or return the transcript
FinishExtract(text, limited) ==
    /\ subtitle_text' = text
    /\ IF ~Truthy(text)
       THEN /\ result' = [status |-> "raised", text |-> <<>>,
                          error |-> IF limited THEN RateLimitedError
                                    ELSE NotFoundError]
            /\ pc' = "done"
       ELSE /\ result' = [status |-> "returned",
                          text |-> Heading \o NormalizeTranscript(text[1]),
                          error |-> ""]
            /\ pc' = "summary"

(***************************************************************************)
(* Tier 2: _fetch_transcript.                                              *)
(***************************************************************************)
\* Tier2Return that goes on to step 3 whenever the tier gave no text
Tier2ReturnAlwaysFallsBack(text, limited, kind) ==
    /\ rate_limited' = limited
    /\ priority_langs' = <<>>
    /\ t2log' = Append(t2log, kind)
    /\ IF ~Truthy(text)
       THEN /\ subtitle_text' = text
            /\ langs_to_try' = LangsToTry(original_lang, info)
            /\ langIdx' = 1
            /\ dlAttempt' = 0
            /\ pc' = "tier3"
            /\ UNCHANGED result
       ELSE /\ FinishExtract(text, limited)
            /\ UNCHANGED <<langs_to_try, langIdx, dlAttempt>>

\* _fetch_transcript returns (text, limited) to extract_content, which goes
\* on to step 3 (_fetch_transcript_ytdlp builds its list and turns to the
\* first language) or skips it
Tier2Return(text, limited, kind) ==
    /\ rate_limited' = limited
    /\ priority_langs' = <<>>
    /\ t2log' = Append(t2log, kind)
    /\ IF ~Truthy(text) /\ ~limited
       THEN /\ subtitle_text' = text
            /\ langs_to_try' = LangsToTry(original_lang, info)
            /\ langIdx' = 1
            /\ dlAttempt' = 0
            /\ pc' = "tier3"
            /\ UNCHANGED result
       ELSE /\ FinishExtract(text, limited)
            /\ UNCHANGED <<langs_to_try, langIdx, dlAttempt>>

\* the loop of _fetch_transcript goes on after a rate-limited call
Tier2Retry(built) ==
    /\ priority_langs' = built
    /\ t2log' = Append(t2log, "rl")
    /\ UNCHANGED <<pc, subtitle_text, rate_limited, langs_to_try, langIdx,
                   dlAttempt, result>>

\* Tier2Except that reports the exhausted retries as not rate-limited
Tier2ExceptUnflagged(msg, built) ==
    IF Has429(msg) /\ attempt < 2
    THEN /\ sleeps' = Append(sleeps, Backoff(attempt))
         /\ attempt' = attempt + 1
         /\ Tier2Retry(built)
    ELSE /\ Tier2Return(None, FALSE, IF Has429(msg) THEN "rl" ELSE "err")
         /\ UNCHANGED <<attempt, sleeps>>

\* Tier2Except that keeps the tier rate-limited once an attempt was
Tier2ExceptSticky(msg, built) ==
    IF Has429(msg) /\ attempt < 2
    THEN /\ sleeps' = Append(sleeps, Backoff(attempt))
         /\ attempt' = attempt + 1
         /\ Tier2Retry(built)
    ELSE /\ Tier2Return(None, Has429(msg) \/ attempt > 0,
                        IF Has429(msg) THEN "rl" ELSE "err")
         /\ UNCHANGED <<attempt, sleeps>>

\* Tier2Except that retries after any exception
Tier2ExceptRetryAll(msg, built) ==
    IF attempt < 2
    THEN /\ sleeps' = Append(sleeps, Backoff(attempt))
         /\ attempt' = attempt + 1
         /\ priority_langs' = built
         /\ t2log' = Append(t2log, IF Has429(msg) THEN "rl" ELSE "err")
         /\ UNCHANGED <<pc, subtitle_text, rate_limited, langs_to_try,
                        langIdx, dlAttempt, result>>
    ELSE /\ Tier2Return(None, Has429(msg),
                        IF Has429(msg) THEN "rl" ELSE "err")
         /\ UNCHANGED <<attempt, sleeps>>

\* the except branch of _fetch_transcript for an exception with message msg,
\* raised when priority_langs held the value built
Tier2Except(msg, built) ==
    IF Has429(msg) /\ attempt < 2
    THEN /\ sleeps' = Append(sleeps, Backoff(attempt))
         /\ attempt' = attempt + 1
         /\ IF attempt + 1 < MaxAttempts
            THEN Tier2Retry(built)
            ELSE Tier2Return(None, TRUE, "rl")
    ELSE /\ Tier2Return(None, Has429(msg),
                        IF Has429(msg) THEN "rl" ELSE "err")
         /\ UNCHANGED <<attempt, sleeps>>

\* one pass of the loop of _fetch_transcript: one call of the service
FetchTranscript ==
    /\ pc = "tier2"
    /\ \/ \E msg \in ExcMessages :
            \* list_transcripts raises
            Tier2Except(msg, priority_langs)
       \/ \E tracks \in TrackLists :
            LET langs == PriorityLangs(original_lang)
                transcript == SelectTranscript(tracks, langs)
            IN IF transcript = None
               THEN /\ Tier2Return(None, FALSE, "notrack")
                    /\ UNCHANGED <<attempt, sleeps>>
               ELSE \/ \E msg \in ExcMessages :
                        \* transcript.fetch() raises
                        Tier2Except(msg, langs)
                    \/ \E segments \in SegmentLists :
                        /\ Tier2Return(Some(Join(<<" ">>, segments)), FALSE,
                                       "text")
                        /\ UNCHANGED <<attempt, sleeps>>
    /\ UNCHANGED <<last_video_info, info, original_lang, duration, dlCount,
                   lastDl, indexVars, extraVars>>

(***************************************************************************)
(* Tier 3: _fetch_transcript_ytdlp and _download_subtitle_ytdlp.           *)
(***************************************************************************)
\* history of the retry loop of _download_subtitle_ytdlp the next download
\* belongs to: a first attempt opens a new loop
SleepsSoFar == IF dlAttempt = 0 THEN <<>> ELSE sleeps
DownloadsSoFar == IF dlAttempt = 0 THEN 0 ELSE dlCount

\* DownloadReturn that accepts a transcript of the first language only
DownloadReturnFirstOnly(r) ==
    /\ dlCount' = DownloadsSoFar + 1
    /\ sleeps' = SleepsSoFar
    /\ IF Truthy(r) /\ langIdx = 1
       THEN /\ FinishExtract(r, rate_limited)
            /\ UNCHANGED <<langIdx, dlAttempt>>
       ELSE IF langIdx < Len(langs_to_try)
       THEN /\ langIdx' = langIdx + 1
            /\ dlAttempt' = 0
            /\ UNCHANGED <<pc, subtitle_text, result>>
       ELSE /\ FinishExtract(None, rate_limited)
            /\ UNCHANGED <<langIdx, dlAttempt>>

\* DownloadReturn that goes on to the next language with the attempts used
DownloadReturnSharedBudget(r) ==
    /\ dlCount' = DownloadsSoFar + 1
    /\ sleeps' = SleepsSoFar
    /\ IF Truthy(r)
       THEN /\ FinishExtract(r, rate_limited)
            /\ UNCHANGED <<langIdx, dlAttempt>>
       ELSE IF langIdx < Len(langs_to_try)
       THEN /\ langIdx' = langIdx + 1
            /\ UNCHANGED <<pc, subtitle_text, result, dlAttempt>>
       ELSE /\ FinishExtract(None, rate_limited)
            /\ UNCHANGED <<langIdx, dlAttempt>>

\* DownloadReturn that tries the remaining languages after a transcript
DownloadReturnKeepTrying(r) ==
    /\ dlCount' = DownloadsSoFar + 1
    /\ sleeps' = SleepsSoFar
    /\ IF langIdx < Len(langs_to_try)
       THEN /\ langIdx' = langIdx + 1
            /\ dlAttempt' = 0
            /\ subtitle_text' = (IF Truthy(r) THEN r ELSE subtitle_text)
            /\ UNCHANGED <<pc, result>>
       ELSE /\ FinishExtract(IF Truthy(r) THEN r ELSE subtitle_text,
                             rate_limited)
            /\ UNCHANGED <<langIdx, dlAttempt>>

\* DownloadReturn that starts the list over after its last language
DownloadReturnStartsOver(r) ==
    /\ dlCount' = DownloadsSoFar + 1
    /\ sleeps' = SleepsSoFar
    /\ IF Truthy(r)
       THEN /\ FinishExtract(r, rate_limited)
            /\ UNCHANGED <<langIdx, dlAttempt>>
       ELSE /\ langIdx' = IF langIdx < Len(langs_to_try) THEN langIdx + 1
                          ELSE 1
            /\ dlAttempt' = 0
            /\ UNCHANGED <<pc, subtitle_text, result>>

\* _download_subtitle_ytdlp returns r to the loop of _fetch_transcript_ytdlp,
\* which returns r, turns to the next language or returns None
DownloadReturn(r) ==
    /\ dlCount' = DownloadsSoFar + 1
    /\ sleeps' = SleepsSoFar
    /\ IF Truthy(r)
       THEN /\ FinishExtract(r, rate_limited)
            /\ UNCHANGED <<langIdx, dlAttempt>>
       ELSE IF langIdx < Len(langs_to_try)
       THEN /\ langIdx' = langIdx + 1
            /\ dlAttempt' = 0
            /\ UNCHANGED <<pc, subtitle_text, result>>
       ELSE /\ FinishExtract(None, rate_limited)
            /\ UNCHANGED <<langIdx, dlAttempt>>

\* what the history keeps of a download of the current language
Downloaded(kind, text) ==
    [lang |-> langs_to_try[langIdx], kind |-> kind, text |-> text]

\* the except branch of _download_subtitle_ytdlp
DownloadExcept(msg) ==
    /\ lastDl' = Downloaded(IF Has429(msg) THEN "rl" ELSE "err", None)
    /\ IF Has429(msg) /\ dlAttempt < 2
       THEN IF dlAttempt + 1 < MaxAttempts
            THEN /\ sleeps' = Append(SleepsSoFar, Backoff(dlAttempt))
                 /\ dlAttempt' = dlAttempt + 1
                 /\ dlCount' = DownloadsSoFar + 1
                 /\ UNCHANGED <<pc, subtitle_text, result, langIdx>>
            ELSE DownloadReturn(None)
       ELSE DownloadReturn(None)

\* one pass of the loop of _download_subtitle_ytdlp: one download
DownloadSubtitle ==
    /\ pc = "tier3"
    /\ \/ \E msg \in ExcMessages :
            \* ydl.download raises
            DownloadExcept(msg)
       \/ \* no .vtt file was written
          /\ lastDl' = Downloaded("nofile", None)
          /\ DownloadReturn(None)
       \/ \E content \in VttFiles :
            \* the .vtt file is read and parsed
            /\ lastDl' = Downloaded(IF ParsedVtt[content] = None
                                    THEN "empty" ELSE "text",
                                    ParsedVtt[content])
            /\ DownloadReturn(ParsedVtt[content])
    /\ UNCHANGED <<last_video_info, info, original_lang, rate_limited,
                   attempt, priority_langs, langs_to_try, duration, t2log,
                   indexVars, extraVars>>

(***************************************************************************)
(* The rest of the handler.                                                *)
(***************************************************************************)
\* _generate_summary asks the processor for the duration
GenerateSummary ==
    /\ pc = "summary"
    /\ duration' = VideoDuration(last_video_info)
    /\ pc' = "done"
    /\ UNCHANGED <<last_video_info, info, original_lang, subtitle_text,
                   rate_limited, attempt, priority_langs, langs_to_try,
                   langIdx, dlAttempt, result, t2log, sleeps, dlCount,
                   lastDl, indexVars, extraVars>>

Next ==
    \/ Handle
    \/ GetVideoInfo
    \/ FetchTranscript
    \/ DownloadSubtitle
    \/ GenerateSummary

Spec == Init /\ [][Next]_vars

\* the probe answers of videos with manual captions only and no duration
FairInfos ==
    {i \in Infos : "duration" \notin DOMAIN i /\ i.automatic_captions = <<>>}

\* GetVideoInfo for such a video
FairGetVideoInfo ==
    /\ GetVideoInfo
    /\ info' \in FairInfos \cup {NoInfo}

FairNext ==
    \/ Handle
    \/ FairGetVideoInfo
    \/ FetchTranscript
    \/ DownloadSubtitle
    \/ GenerateSummary

\* every upstream call of extract_content returns or raises: the worker
\* thread it is awaited in comes back, and the handler goes on
FairSpec ==
    /\ Init
    /\ [][FairNext]_vars
    /\ WF_vars(FairGetVideoInfo)
    /\ WF_vars(FetchTranscript)
    /\ WF_vars(DownloadSubtitle)

(***************************************************************************)
(* The Document Index: FileStorage (documents.json), EmbeddingStore (the   *)
(* vector collection) and RAGManager over both.                            *)
(***************************************************************************)
\* datetime.isoformat and datetime.fromisoformat
IsoFormat(t) == <<"iso", t>>
FromIsoFormat(str) == str[2]

\* Document.to_dict and Document.from_dict
ToDict(document) == [document EXCEPT !.added_at = IsoFormat(@)]
FromDict(data) == [data EXCEPT !.added_at = FromIsoFormat(@)]

\* FileStorage.get_documents
GetDocuments ==
    IF documents_file = None THEN <<>>
    ELSE [i \in 1..Len(documents_file[1]) |-> FromDict(documents_file[1][i])]

\* json.dumps([doc.to_dict() for doc in documents]) written to the file
WriteDocuments(documents) ==
    Some([i \in 1..Len(documents) |-> ToDict(documents[i])])

\* the positions of doc_id in a list of documents or of entries
IdxOf(list, doc_id) == {i \in 1..Len(list) : list[i].doc_id = doc_id}

\* a save_document that appends whatever the file holds
SaveDocumentAppends(documents, document) == Append(documents, document)

\* a save_document that moves the document it replaces to the end
SaveDocumentMovesToEnd(documents, document) ==
    Append(SelectSeq(documents, LAMBDA doc : doc.doc_id # document.doc_id),
           document)

\* the list FileStorage.save_document writes: the document replaces the
\* first one of its doc_id or is appended
SaveDocument(documents, document) ==
    IF IdxOf(documents, document.doc_id) # {}
    THEN [documents EXCEPT ![Min(IdxOf(documents, document.doc_id))] = document]
    ELSE Append(documents, document)

\* the list FileStorage.delete_document keeps
RECURSIVE Without(_, _)
Without(list, doc_id) ==
    IF list = <<>> THEN <<>>
    ELSE IF Head(list).doc_id = doc_id THEN Without(Tail(list), doc_id)
    ELSE <<Head(list)>> \o Without(Tail(list), doc_id)

\* an add_document of the embedding store that only updates entries
EmbeddingAddUpdatesOnly(entries, doc_id, content, metadata) ==
    LET entry == [doc_id |-> doc_id, document |-> content,
                  metadata |-> metadata]
    IN [i \in 1..Len(entries) |->
           IF entries[i].doc_id = doc_id THEN entry ELSE entries[i]]

\* an add_document of the embedding store that adds without looking
EmbeddingAddAppends(entries, doc_id, content, metadata) ==
    Append(entries, [doc_id |-> doc_id, document |-> content,
                     metadata |-> metadata])

\* the collection after EmbeddingStore.add_document: update of the entry
\* that collection.get found, or add
EmbeddingAdd(entries, doc_id, content, metadata) ==
    LET entry == [doc_id |-> doc_id, document |-> content,
                  metadata |-> metadata]
    IN IF IdxOf(entries, doc_id) # {}
       THEN [i \in 1..Len(entries) |->
                IF entries[i].doc_id = doc_id THEN entry ELSE entries[i]]
       ELSE Append(entries, entry)

\* the Document that RAGManager.add_document builds
NewDocument(url, content, title, content_type, now) ==
    [doc_id |-> Md5(url),
     url |-> url,
     title |-> title,
     content_type |-> content_type,
     added_at |-> now,
     content_preview |-> SubSeq(content, 1, Min({Len(content), PreviewLength}))]

\* the metadata RAGManager.add_document hands to the embedding store
EntryMetadata(document) ==
    [url |-> document.url,
     title |-> document.title,
     content_type |-> document.content_type,
     added_at |-> IsoFormat(document.added_at)]

\* the distance of the embeddings of two texts: 0 between equal texts, and
\* taken to be larger between different ones
Distance(query_text, document) == IF query_text = document THEN 0 ELSE 1

\* a collection.query that returns any n entries, in any order
RankingsUnordered(entries, query_text, n) ==
    {r \in [1..n -> 1..Len(entries)] :
        \A i, j \in 1..n : i < j => r[i] # r[j]}

\* what collection.query may return for n_results = n: n entries, nearest
\* first, none farther than an entry left out
Rankings(entries, query_text, n) ==
    {r \in [1..n -> 1..Len(entries)] :
        /\ \A i, j \in 1..n : i < j => r[i] # r[j]
        /\ \A i, j \in 1..n :
              i < j => Distance(query_text, entries[r[i]].document)
                       <= Distance(query_text, entries[r[j]].document)
        /\ \A i \in 1..n : \A e \in 1..Len(entries) :
              (\A j \in 1..n : r[j] # e) =>
                  Distance(query_text, entries[r[i]].document)
                  <= Distance(query_text, entries[e].document)}

\* the dicts EmbeddingStore.query builds from a ranking
QueryDocuments(entries, query_text, r) ==
    [i \in 1..Len(r) |->
        [id |-> entries[r[i]].doc_id,
         content |-> entries[r[i]].document,
         metadata |-> entries[r[i]].metadata,
         distance |-> Distance(query_text, entries[r[i]].document)]]

(***************************************************************************)
(* get_document_name of the four processors.                               *)
(***************************************************************************)
\* WebProcessor.get_document_name once the page is fetched
WebName(url, title) ==
    IF Truthy(title) THEN Shorten(Strip(title[1]))
    ELSE IF NetLoc(url) # <<>> THEN NetLoc(url)
    ELSE <<"W", "e", "b", " ", "P", "a", "g", "e">>

\* the first non-empty line of the content that is no heading, or None
RECURSIVE FirstTextLine(_)
FirstTextLine(lines) ==
    IF lines = <<>> THEN None
    ELSE IF Strip(Head(lines)) # <<>> /\ Strip(Head(lines))[1] # "#"
    THEN Some(Strip(Head(lines)))
    ELSE FirstTextLine(Tail(lines))

\* PDFProcessor.get_document_name
PdfName(url, content) ==
    LET filename == PathStem(Unquote(UrlPath(url)))
    IN IF filename # <<>> /\ filename # <<"d", "o", "w", "n", "l", "o", "a", "d">>
       THEN Shorten(TitleCase(ReplaceChar(ReplaceChar(filename, "_", " "),
                                          "-", " ")))
       ELSE IF FirstTextLine(SplitLines(content)) # None
       THEN Shorten(FirstTextLine(SplitLines(content))[1])
       ELSE <<"P", "D", "F", " ", "D", "o", "c", "u", "m", "e", "n", "t">>

\* GitHubProcessor.get_document_name
GithubName(url) ==
    IF ParseGithubUrl(url) = None THEN <<"G", "i", "t", "H", "u", "b", " ", "R", "e", "p", "o", "s", "i", "t", "o", "r", "y">>
    ELSE LET owner == ParseGithubUrl(url)[1].owner
             repo == ParseGithubUrl(url)[1].repo
         IN IF Len(owner) + 1 + Len(repo) > 60
            THEN Shorten(repo)
            ELSE owner \o <<"/">> \o repo

\* the title get_document_name takes from a probe, or None
VideoTitle(i) ==
    IF i # NoInfo /\ "title" \in DOMAIN i /\ i.title # <<>>
    THEN Some(Shorten(i.title))
    ELSE None

(***************************************************************************)
(* RAGManager: add_document, delete_document, clear_all_documents, query.  *)
(***************************************************************************)
\* RAGManager.add_document: the Document store is written, then the
\* collection; either write may raise; the clock stops at last
AddDocumentUntil(url, content, title, content_type, last) ==
    LET document == NewDocument(url, content, title, content_type, clock)
        done == [op |-> "add", url |-> url, doc_id |-> document.doc_id,
                 content |-> content, document |-> document]
    IN /\ clock < last
       /\ clock' = clock + 1
       /\ deleted' = [deleted EXCEPT ![document.doc_id] = "no"]
       /\ \/ \* storage.save_document raises
             /\ ret' = done @@ [status |-> "raised"]
             /\ failed' = TRUE
             /\ UNCHANGED <<documents_file, collection>>
          \/ \* embedding_store.add_document raises
             /\ documents_file' =
                   WriteDocuments(SaveDocument(GetDocuments, document))
             /\ ret' = done @@ [status |-> "raised"]
             /\ failed' = TRUE
             /\ UNCHANGED collection
          \/ /\ documents_file' =
                   WriteDocuments(SaveDocument(GetDocuments, document))
             /\ collection' = EmbeddingAdd(collection, document.doc_id,
                                           content, EntryMetadata(document))
             /\ ret' = done @@ [status |-> "returned"]
             /\ UNCHANGED failed

\* RAGManager.add_document
AddDocument(url, content, title, content_type) ==
    AddDocumentUntil(url, content, title, content_type, MaxTime)

\* a delete_document whose vector store reports the removal it did not make
DeleteDocumentOpKeepsEntry(doc_id) ==
    \E embedding_deleted \in BOOLEAN :
        LET documents == GetDocuments
            new_documents == Without(documents, doc_id)
            storage_deleted == Len(new_documents) # Len(documents)
            done == [op |-> "delete", doc_id |-> doc_id,
                     had_document |-> IdxOf(documents, doc_id) # {},
                     had_entry |-> IdxOf(collection, doc_id) # {},
                     embedding_deleted |-> embedding_deleted]
        IN /\ collection' = collection
           /\ \/ \* storage.delete_document raises
                 /\ ret' = done @@ [status |-> "raised"]
                 /\ failed' = TRUE
                 /\ UNCHANGED <<documents_file, deleted>>
              \/ /\ documents_file' = IF storage_deleted
                                      THEN WriteDocuments(new_documents)
                                      ELSE documents_file
                 /\ ret' = done @@ [status |-> "returned",
                                    storage_deleted |-> storage_deleted,
                                    value |-> embedding_deleted
                                              \/ storage_deleted]
                 /\ failed' = (failed \/ ~embedding_deleted)
                 /\ deleted' =
                       IF (done.had_document \/ done.had_entry)
                          /\ (embedding_deleted \/ storage_deleted)
                       THEN [deleted EXCEPT ![doc_id] =
                                IF embedding_deleted THEN "clean"
                                ELSE "partial"]
                       ELSE deleted

\* RAGManager.delete_document: EmbeddingStore.delete_document turns an
\* exception into False; FileStorage.delete_document may raise
DeleteDocumentOp(doc_id) ==
    \E embedding_deleted \in BOOLEAN :
        LET documents == GetDocuments
            new_documents == Without(documents, doc_id)
            storage_deleted == Len(new_documents) # Len(documents)
            done == [op |-> "delete", doc_id |-> doc_id,
                     had_document |-> IdxOf(documents, doc_id) # {},
                     had_entry |-> IdxOf(collection, doc_id) # {},
                     embedding_deleted |-> embedding_deleted]
        IN /\ collection' = IF embedding_deleted
                            THEN Without(collection, doc_id)
                            ELSE collection
           /\ \/ \* storage.delete_document raises
                 /\ ret' = done @@ [status |-> "raised"]
                 /\ failed' = TRUE
                 /\ UNCHANGED <<documents_file, deleted>>
              \/ /\ documents_file' = IF storage_deleted
                                      THEN WriteDocuments(new_documents)
                                      ELSE documents_file
                 /\ ret' = done @@ [status |-> "returned",
                                    storage_deleted |-> storage_deleted,
                                    value |-> embedding_deleted
                                              \/ storage_deleted]
                 /\ failed' = (failed \/ ~embedding_deleted)
                 /\ deleted' =
                       IF (done.had_document \/ done.had_entry)
                          /\ (embedding_deleted \/ storage_deleted)
                       THEN [deleted EXCEPT ![doc_id] =
                                IF embedding_deleted THEN "clean"
                                ELSE "partial"]
                       ELSE deleted

\* a clear_all_documents that returns the count of EmbeddingStore.clear_all
ClearAllDocumentsOpCountsEntries ==
    \/ \* embedding_store.clear_all raises
       /\ ret' = [op |-> "clear", status |-> "raised"]
       /\ failed' = TRUE
       /\ UNCHANGED <<documents_file, collection>>
    \/ \* storage.clear_documents raises
       /\ collection' = <<>>
       /\ ret' = [op |-> "clear", status |-> "raised"]
       /\ failed' = TRUE
       /\ UNCHANGED documents_file
    \/ /\ collection' = <<>>
       /\ documents_file' = IF documents_file # None
                            THEN WriteDocuments(<<>>)
                            ELSE documents_file
       /\ ret' = [op |-> "clear", status |-> "returned",
                  value |-> Len(collection)]
       /\ UNCHANGED failed

\* RAGManager.clear_all_documents: EmbeddingStore.clear_all, then
\* FileStorage.clear_documents; either may raise
ClearAllDocumentsOp ==
    \/ \* embedding_store.clear_all raises
       /\ ret' = [op |-> "clear", status |-> "raised"]
       /\ failed' = TRUE
       /\ UNCHANGED <<documents_file, collection>>
    \/ \* storage.clear_documents raises
       /\ collection' = <<>>
       /\ ret' = [op |-> "clear", status |-> "raised"]
       /\ failed' = TRUE
       /\ UNCHANGED documents_file
    \/ /\ collection' = <<>>
       /\ documents_file' = IF documents_file # None
                            THEN WriteDocuments(<<>>)
                            ELSE documents_file
       /\ ret' = [op |-> "clear", status |-> "returned",
                  value |-> Len(GetDocuments)]
       /\ UNCHANGED failed

\* EmbeddingStore.query under RAGManager.query; collection.query either
\* rejects n_results = 0 or answers it with no result
QueryOp(query_text, k) ==
    LET n_results == Min({k, Len(collection)})
        done == [op |-> "query", query_text |-> query_text, k |-> k,
                 n_results |-> n_results]
    IN IF n_results = 0
       THEN \/ ret' = done @@ [status |-> "raised"]
            \/ ret' = done @@ [status |-> "returned", value |-> <<>>]
       ELSE \E r \in Rankings(collection, query_text, n_results) :
               ret' = done @@ [status |-> "returned",
                               value |-> QueryDocuments(collection,
                                                        query_text, r)]

(***************************************************************************)
(* LinkHandler.handle, step by step, and the user's other requests.        *)
(***************************************************************************)
\* the except branch of LinkHandler.handle
LinkFailed(stage) ==
    /\ ret' = [op |-> "link", status |-> "raised", stage |-> stage,
               content_type |-> req.content_type]
    /\ hpc' = "idle"
    /\ req' = NoRequest

\* handle is entered: the url is classified
HandleLink ==
    /\ hpc = "idle"
    /\ clock < MaxLinks
    /\ \E url \in Urls :
          req' = [NoRequest EXCEPT !.url = url,
                                   !.content_type = ClassifyUrl(url)]
    /\ hpc' = "extract"
    /\ UNCHANGED <<videoVars, extraVars, last_video_info, documents_file,
                   collection, clock, ret, failed, deleted>>

\* ExtractContent whose failure is taken for an empty text and handled on
ExtractContentKeepsGoing ==
    /\ hpc = "extract"
    /\ IF req.content_type = "youtube"
       THEN last_video_info' \in NamedInfos \cup {NoInfo}
       ELSE UNCHANGED last_video_info
    /\ \/ \E content \in LinkContents :
             /\ req' = [req EXCEPT !.content = content]
             /\ hpc' = "name"
             /\ UNCHANGED ret
       \/ /\ req' = [req EXCEPT !.doc_name = req.url]
          /\ hpc' = "add"
          /\ UNCHANGED ret
    /\ UNCHANGED <<videoVars, extraVars, documents_file, collection, clock,
                   failed, deleted>>

\* processor.extract_content returns a text or raises; the video extractor
\* keeps the metadata of its probe
ExtractContent ==
    /\ hpc = "extract"
    /\ IF req.content_type = "youtube"
       THEN last_video_info' \in NamedInfos \cup {NoInfo}
       ELSE UNCHANGED last_video_info
    /\ \/ \E content \in LinkContents :
             /\ req' = [req EXCEPT !.content = content]
             /\ hpc' = "name"
             /\ UNCHANGED ret
       \/ LinkFailed("extract")
    /\ UNCHANGED <<videoVars, extraVars, documents_file, collection, clock,
                   failed, deleted>>

\* the name is found and handle goes on to the summary
Named(doc_name) ==
    /\ req' = [req EXCEPT !.doc_name = doc_name]
    /\ hpc' = "summary"
    /\ UNCHANGED ret

\* processor.get_document_name
GetDocumentName ==
    /\ hpc = "name"
    /\ \/ /\ req.content_type = "web"
          /\ \/ \* session.get raises
                LinkFailed("name")
             \/ \E title \in PageTitles : Named(WebName(req.url, title))
       \/ /\ req.content_type = "pdf"
          /\ Named(PdfName(req.url, req.content))
       \/ /\ req.content_type = "github"
          /\ Named(GithubName(req.url))
       \/ /\ req.content_type = "youtube"
          /\ IF VideoTitle(last_video_info) # None
             THEN Named(VideoTitle(last_video_info)[1])
             ELSE \E i \in NamedInfos \cup {NoInfo} :
                     \* the probe of the fallback
                     IF VideoTitle(i) # None THEN Named(VideoTitle(i)[1])
                     ELSE IF ExtractVideoId(req.url) # None
                     THEN Named(<<"Y", "o", "u", "T", "u", "b", "e", " ", "V", "i", "d", "e", "o", " ">>
                                \o ExtractVideoId(req.url)[1])
                     ELSE LinkFailed("name")
    /\ UNCHANGED <<videoVars, extraVars, last_video_info, documents_file,
                   collection, clock, failed, deleted>>

\* _generate_summary and the reply with the summary: the completion or the
\* reply may raise
LinkSummary ==
    /\ hpc = "summary"
    /\ \/ /\ hpc' = "add"
          /\ UNCHANGED <<req, ret>>
       \/ LinkFailed("summary")
    /\ UNCHANGED <<videoVars, extraVars, last_video_info, documents_file,
                   collection, clock, failed, deleted>>

\* rag_manager.add_document and the end of handle
LinkAdd ==
    /\ hpc = "add"
    /\ AddDocument(req.url, req.content, req.doc_name, req.content_type)
    /\ hpc' = "idle"
    /\ req' = NoRequest
    /\ UNCHANGED <<videoVars, extraVars, last_video_info>>

\* rag_manager.add_document(url, content, title, content_type)
Upsert ==
    /\ hpc = "idle"
    /\ \E url \in IndexUrls : \E content \in Contents : \E title \in Titles :
          AddDocument(url, content, title, ClassifyUrl(url))
    /\ UNCHANGED <<videoVars, extraVars, last_video_info, hpc, req>>

\* rag_manager.delete_document(doc_id)
DeleteDocument ==
    /\ hpc = "idle"
    /\ \E url \in IndexUrls : DeleteDocumentOp(Md5(url))
    /\ UNCHANGED <<videoVars, extraVars, last_video_info, hpc, req, clock>>

\* rag_manager.clear_all_documents()
ClearAllDocuments ==
    /\ hpc = "idle"
    /\ ClearAllDocumentsOp
    /\ UNCHANGED <<videoVars, extraVars, last_video_info, hpc, req, clock,
                   deleted>>

\* the values of n_results
Ks == {1, NResults}

\* rag_manager.query(question, history, n_results)
Query ==
    /\ hpc = "idle"
    /\ \E query_text \in Contents : \E k \in Ks : QueryOp(query_text, k)
    /\ UNCHANGED <<videoVars, extraVars, last_video_info, hpc, req,
                   documents_file, collection, clock, failed, deleted>>

\* the links of a user, handled one after the other
LinkNext ==
    \/ HandleLink
    \/ ExtractContent
    \/ GetDocumentName
    \/ LinkSummary
    \/ LinkAdd

LinkSpec == Init /\ [][LinkNext]_vars

\* the calls of a user's RAGManager, one after the other
IndexNext ==
    \/ Upsert
    \/ DeleteDocument
    \/ ClearAllDocuments
    \/ Query

IndexSpec == Init /\ [][IndexNext]_vars

(***************************************************************************)
(* extract_content of the four processors, as LinkHandler.handle reaches   *)
(* it: classify_url, the processor of the class, its extraction.           *)
(***************************************************************************)
\* most pages of a PDF file
MaxPages == 2

\* links that more than one pattern matches, or whose query ends in .pdf
VideoPdfUrl == <<"h", "t", "t", "p", "s", ":", "/", "/", "y", "o", "u", "t", "u", ".", "b", "e", "/", "v", "1", ".", "p", "d", "f">>
RepoPdfUrl == <<"h", "t", "t", "p", "s", ":", "/", "/", "g", "i", "t", "h", "u", "b", ".", "c", "o", "m", "/", "o", "/", "r", "/", "x", ".", "p", "d", "f">>
QueryPdfUrl == <<"h", "t", "t", "p", ":", "/", "/", "a", ".", "i", "o", "/", "x", "?", "f", "=", "y", ".", "p", "d", "f">>
ExtractUrls == Urls \cup {VideoPdfUrl, RepoPdfUrl, QueryPdfUrl}

\* response.status of a fetch
Statuses == {200, 304, 404}

\* response.raise_for_status() raises
RaisesForStatus(status) == status >= 400

\* the pages a web fetch returns and what html2text makes of each
WebPages ==
    { [html |-> <<>>, markdown |-> <<"\n">>],
      [html |-> <<"<", "p", ">", "a", "<", "/", "p", ">">>, markdown |-> <<"a", "\n", "\n">>],
      [html |-> <<"<", "p", ">", "a", "<", "/", "p", ">", "<", "b", "r", ">", "<", "b", "r", ">", "<", "p", ">", "b", "<", "/", "p", ">">>, markdown |-> <<"a", "\n", "\n", " ", "\n", "\n", "\n", "b", "\n", "\n">>] }

\* the loop of WebProcessor.extract_content over the lines of the markdown
RECURSIVE CleanedLines(_, _)
CleanedLines(lines, prev_empty) ==
    IF lines = <<>> THEN <<>>
    ELSE LET is_empty == Strip(lines[1]) = <<>>
         IN (IF ~(is_empty /\ prev_empty) THEN <<lines[1]>> ELSE <<>>)
            \o CleanedLines(Tail(lines), is_empty)

\* what WebProcessor.extract_content returns for a markdown
WebText(markdown) ==
    Strip(Join(<<"\n">>, CleanedLines(SplitLines(markdown), FALSE)))

\* page.extract_text() of the pages of a PDF file
PageTexts == {<<>>, <<" ", "\n">>, <<"a">>, <<" ", "b", "\n">>}
Pdfs == UNION {[1..n -> PageTexts] : n \in 0..MaxPages}

\* text_parts whose sections are numbered as they come
RECURSIVE TextPartsCounted(_, _)
TextPartsCounted(pages, page_num) ==
    IF pages = <<>> THEN <<>>
    ELSE IF Strip(pages[1]) # <<>>
    THEN <<<<"#", "#", " ", "P", "a", "g", "e", " ">> \o Decimal(page_num) \o <<"\n", "\n">> \o Strip(pages[1])>>
         \o TextPartsCounted(Tail(pages), page_num + 1)
    ELSE TextPartsCounted(Tail(pages), page_num)

\* text_parts of PDFProcessor.extract_content
RECURSIVE TextParts(_, _)
TextParts(pages, page_num) ==
    IF page_num > Len(pages) THEN <<>>
    ELSE (IF Strip(pages[page_num]) # <<>>
          THEN <<<<"#", "#", " ", "P", "a", "g", "e", " ">> \o Decimal(page_num) \o <<"\n", "\n">>
                 \o Strip(pages[page_num])>>
          ELSE <<>>)
         \o TextParts(pages, page_num + 1)

\* readme_urls of GitHubProcessor.extract_content
ReadmeUrls(owner, repo) ==
    LET raw == <<"h", "t", "t", "p", "s", ":", "/", "/", "r", "a", "w", ".", "g", "i", "t", "h", "u", "b", "u", "s", "e", "r", "c", "o", "n", "t", "e", "n", "t", ".", "c", "o", "m", "/">> \o owner \o <<"/">>
               \o repo
    IN << raw \o <<"/", "m", "a", "i", "n", "/", "R", "E", "A", "D", "M", "E", ".", "m", "d">>,
          raw \o <<"/", "m", "a", "s", "t", "e", "r", "/", "R", "E", "A", "D", "M", "E", ".", "m", "d">>,
          raw \o <<"/", "m", "a", "i", "n", "/", "R", "e", "a", "d", "m", "e", ".", "m", "d">>,
          raw \o <<"/", "m", "a", "s", "t", "e", "r", "/", "R", "e", "a", "d", "m", "e", ".", "m", "d">>,
          raw \o <<"/", "m", "a", "i", "n", "/", "r", "e", "a", "d", "m", "e", ".", "m", "d">>,
          raw \o <<"/", "m", "a", "s", "t", "e", "r", "/", "r", "e", "a", "d", "m", "e", ".", "m", "d">> >>

\* response.text() of a README
Readmes == {<<" ", "r", "\n">>}

\* the subtitle files of a video
VttInputs ==
    VttFiles \cup
    { <<"W", "E", "B", "V", "T", "T", "\n", "\n", "0", "0", ":", "0", "1", " ", "-", "-", ">", " ", "0", "0", ":", "0", "2", "\n", "H", "e", "l", "l", "o", " ", "<", "b", ">", "w", "o", "r", "l", "d", "<", "/", "b", ">", "\n", "1", "\n", "f", "o", "o">>,
      <<"W", "E", "B", "V", "T", "T", "\n", "N", "O", "T", "E", " ", "n", "\n", "S", "T", "Y", "L", "E", "\n", ":", ":", "c", "u", "e", "\n", " ", "7", " ", "\n", "a", "\n", "<", "c", ">", "<", "/", "c", ">", "\n", "b">>,
      <<"<", "i", ">", "<", "/", "i", ">">> }

\* an extraction ends: handle goes on with the text or to its except branch
ExtractionEnds(processor, outcome) ==
    /\ ret' = [op |-> "extract", processor |-> processor] @@ outcome
    /\ hpc' = "idle"

Returned(text) == [status |-> "returned", value |-> text]
Raised(error) == [status |-> "raised", error |-> error]

\* lines 73-76 of LinkHandler.handle: the url is classified and the
\* processor of its class taken
ClassifyLink ==
    /\ hpc = "idle"
    /\ \E url \in ExtractUrls :
          /\ req' = [NoRequest EXCEPT !.url = url,
                                      !.content_type = ClassifyUrl(url)]
          /\ ret' = [op |-> "classify", status |-> "returned",
                     value |-> ClassifyUrl(url)]
    /\ hpc' = "extract"
    /\ probed' = <<>>
    /\ UNCHANGED <<videoVars, userVars, raceVars, handles, command, last_video_info,
                   documents_file, collection, clock, failed, deleted>>

\* GitHubProcessor.extract_content called with a url of any class
ExtractReadme ==
    /\ hpc = "idle"
    /\ \E url \in ExtractUrls :
          req' = [NoRequest EXCEPT !.url = url, !.content_type = "github"]
    /\ ret' = [op |-> "call", status |-> "none"]
    /\ hpc' = "extract"
    /\ probed' = <<>>
    /\ UNCHANGED <<videoVars, userVars, raceVars, handles, command, last_video_info,
                   documents_file, collection, clock, failed, deleted>>

\* WebProcessor.extract_content
WebExtract ==
    /\ hpc = "extract"
    /\ req.content_type = "web"
    /\ \/ \* session.get raises
          ExtractionEnds("web", Raised("network"))
       \/ \E status \in Statuses : \E page \in WebPages :
             IF RaisesForStatus(status)
             THEN ExtractionEnds("web", Raised("status"))
             ELSE ExtractionEnds("web", Returned(WebText(page.markdown))
                                   @@ [http_status |-> status,
                                       html |-> page.html])
    /\ UNCHANGED <<videoVars, extraVars, last_video_info, req, documents_file,
                   collection, clock, failed, deleted>>

\* PDFProcessor.extract_content
PdfExtract ==
    /\ hpc = "extract"
    /\ req.content_type = "pdf"
    /\ \/ \* the download raises or raise_for_status does
          ExtractionEnds("pdf", Raised("download"))
       \/ \* PdfReader raises
          ExtractionEnds("pdf", Raised("reader"))
       \/ \E pages \in Pdfs :
             LET text_parts == TextParts(pages, 1)
             IN IF text_parts = <<>>
                THEN ExtractionEnds("pdf", Raised("no text") @@ [pages |-> pages])
                ELSE ExtractionEnds("pdf", Returned(Join(<<"\n", "\n">>, text_parts))
                                      @@ [pages |-> pages])
    /\ UNCHANGED <<videoVars, extraVars, last_video_info, req, documents_file,
                   collection, clock, failed, deleted>>

\* a ProbeReadme that gives up when a probe raises
ProbeReadmeGivesUp ==
    /\ hpc = "extract"
    /\ req.content_type = "github"
    /\ LET parsed == ParseGithubUrl(req.url)
       IN IF parsed = None
          THEN /\ ExtractionEnds("github", Raised("parse"))
               /\ UNCHANGED probed
          ELSE LET readme_urls == ReadmeUrls(parsed[1].owner, parsed[1].repo)
                   readme_url == readme_urls[Len(probed) + 1]
                   Miss(how) ==
                       /\ probed' = Append(probed, [url |-> readme_url,
                                                    result |-> how])
                       /\ IF Len(probed) + 1 < Len(readme_urls)
                          THEN UNCHANGED <<hpc, ret>>
                          ELSE ExtractionEnds("github", Raised("not found"))
               IN \/ \* session.get or response.text() raises
                     /\ probed' = Append(probed, [url |-> readme_url,
                                                  result |-> "error"])
                     /\ ExtractionEnds("github", Raised("not found"))
                  \/ \* response.status is not 200
                     \E status \in Statuses \ {200} : Miss("miss")
                  \/ \E content \in Readmes :
                        /\ probed' = Append(probed, [url |-> readme_url,
                                                     result |-> "ok",
                                                     content |-> content])
                        /\ ExtractionEnds("github", Returned(Strip(content)))
    /\ UNCHANGED <<videoVars, userVars, raceVars, handles, command, last_video_info, req,
                   documents_file, collection, clock, failed, deleted>>

\* one pass of the loop of GitHubProcessor.extract_content: one probe; before
\* the first, the url is parsed
ProbeReadme ==
    /\ hpc = "extract"
    /\ req.content_type = "github"
    /\ LET parsed == ParseGithubUrl(req.url)
       IN IF parsed = None
          THEN /\ ExtractionEnds("github", Raised("parse"))
               /\ UNCHANGED probed
          ELSE LET readme_urls == ReadmeUrls(parsed[1].owner, parsed[1].repo)
                   readme_url == readme_urls[Len(probed) + 1]
                   Miss(how) ==
                       /\ probed' = Append(probed, [url |-> readme_url,
                                                    result |-> how])
                       /\ IF Len(probed) + 1 < Len(readme_urls)
                          THEN UNCHANGED <<hpc, ret>>
                          ELSE ExtractionEnds("github", Raised("not found"))
               IN \/ \* session.get or response.text() raises
                     Miss("error")
                  \/ \* response.status is not 200
                     \E status \in Statuses \ {200} : Miss("miss")
                  \/ \E content \in Readmes :
                        /\ probed' = Append(probed, [url |-> readme_url,
                                                     result |-> "ok",
                                                     content |-> content])
                        /\ ExtractionEnds("github", Returned(Strip(content)))
    /\ UNCHANGED <<videoVars, userVars, raceVars, handles, command, last_video_info, req,
                   documents_file, collection, clock, failed, deleted>>

\* YouTubeProcessor.extract_content as far as its outcome goes: it raises,
\* or returns the transcript of the service or of a parsed subtitle file
YoutubeExtract ==
    /\ hpc = "extract"
    /\ req.content_type = "youtube"
    /\ \/ ExtractionEnds("youtube", Raised("rate limited"))
       \/ ExtractionEnds("youtube", Raised("no captions"))
       \/ \E segments \in SegmentLists :
             ExtractionEnds("youtube",
                       Returned(Heading \o NormalizeTranscript(
                                               Join(<<" ">>, segments))))
       \/ \E content \in VttInputs :
             LET parsed == ParseVtt(content)
             IN IF ~Truthy(parsed)
                THEN ExtractionEnds("youtube", Raised("no captions")
                                          @@ [vtt |-> content,
                                              parsed |-> parsed])
                ELSE ExtractionEnds("youtube",
                               Returned(Heading
                                        \o NormalizeTranscript(parsed[1]))
                               @@ [vtt |-> content, parsed |-> parsed])
    /\ UNCHANGED <<videoVars, extraVars, last_video_info, req, documents_file,
                   collection, clock, failed, deleted>>

\* the extractions of a user's links, one after the other
ExtractNext ==
    \/ ClassifyLink
    \/ ExtractReadme
    \/ WebExtract
    \/ PdfExtract
    \/ ProbeReadme
    \/ YoutubeExtract

ExtractSpec == Init /\ [][ExtractNext]_vars

(***************************************************************************)
(* The list of a user's documents: RAGManager.get_document_list between    *)
(* the calls that change it.                                               *)
(***************************************************************************)
\* the links of the documents of a list
ListUrls == {WebUrl, PdfUrl, RepoUrl}

\* RAGManager.add_document for one of the links
ListUpsert ==
    /\ hpc = "idle"
    /\ \E url \in ListUrls :
          AddDocumentUntil(url, <<"a">>, <<"T">>, ClassifyUrl(url), MaxUpserts)
    /\ UNCHANGED <<videoVars, extraVars, last_video_info, hpc, req>>

\* RAGManager.delete_document for one of the links
ListDelete ==
    /\ hpc = "idle"
    /\ \E url \in ListUrls : DeleteDocumentOp(Md5(url))
    /\ UNCHANGED <<videoVars, extraVars, last_video_info, hpc, req, clock>>

\* RAGManager.get_document_list
GetDocumentList ==
    /\ hpc = "idle"
    /\ ret' = [op |-> "list", status |-> "returned", value |-> GetDocuments]
    /\ UNCHANGED <<videoVars, extraVars, last_video_info, hpc, req,
                   documents_file, collection, clock, failed, deleted>>

\* the calls that change or read a user's list, one after the other
ListNext ==
    \/ ListUpsert
    \/ ListDelete
    \/ ClearAllDocuments
    \/ GetDocumentList

ListSpec == Init /\ [][ListNext]_vars

(***************************************************************************)
(* The storage of several users: FileStorage under data_dir, one database  *)
(* per db_path, and the RAGManager that MessageRouter caches per user.     *)
(***************************************************************************)
\* the documents, the messages and the limits of the calls of the users
UserUrls == {WebUrl}
MessageTexts == {<<"q">>}
Limits == {None} \cup {Some(n) : n \in 0..(MaxUserTime + 1)}

\* Message.to_json and Message.from_json: one line of messages.jsonl
ToJson(message) == [message EXCEPT !.timestamp = IsoFormat(@)]
FromJson(line) == [line EXCEPT !.timestamp = FromIsoFormat(@)]

\* list[start:] of Python
SliceFrom(list, start) ==
    LET from == IF start < 0 THEN Max({Len(list) + start, 0})
                ELSE Min({start, Len(list)})
    IN SubSeq(list, from + 1, Len(list))

\* FileStorage.get_documents on the file at a path
ReadDocuments(path) ==
    IF disk[path] = None THEN <<>>
    ELSE [i \in 1..Len(disk[path][1]) |-> FromDict(disk[path][1][i])]

\* the messages FileStorage.get_messages reads from the file at a path
ReadMessages(path) ==
    IF disk[path] = None THEN <<>>
    ELSE [i \in 1..Len(disk[path][1]) |-> FromJson(disk[path][1][i])]

\* MessageRouter._get_rag_manager: the cache after the call; a new
\* RAGManager opens the database at storage.get_user_db_path(user_id)
GetRagManager(user_id) ==
    IF user_id \in DOMAIN rag_managers THEN rag_managers
    ELSE rag_managers @@
         (user_id :> [user_id |-> user_id,
                      db_path |-> GetUserDbPath(user_id)])

\* a call for a user ends
UserReturn(user, op, outcome) ==
    ret' = [op |-> op, user |-> user] @@ outcome

\* RAGManager.add_document of the user's manager
UserUpsert ==
    \E user \in Users : \E url \in UserUrls :
       LET rag_manager == GetRagManager(UserId(user))[UserId(user)]
           document == NewDocument(url, <<"a">>, <<"T">>, ClassifyUrl(url), clock)
           path == DocumentsFile(rag_manager.user_id)
           saved == [disk EXCEPT ![path] =
                        WriteDocuments(SaveDocument(ReadDocuments(path),
                                                    document))]
       IN /\ clock < MaxUserTime
          /\ clock' = clock + 1
          /\ rag_managers' = GetRagManager(UserId(user))
          /\ upserted' = [upserted EXCEPT ![user] = @ \cup {document}]
          /\ \/ \* storage.save_document raises
                /\ UserReturn(user, "add", [status |-> "raised"])
                /\ UNCHANGED <<disk, chroma>>
             \/ \* embedding_store.add_document raises
                /\ disk' = saved
                /\ UserReturn(user, "add", [status |-> "raised"])
                /\ UNCHANGED chroma
             \/ /\ disk' = saved
                /\ chroma' = [chroma EXCEPT ![rag_manager.db_path] =
                                 EmbeddingAdd(@, document.doc_id, <<"a">>,
                                              EntryMetadata(document))]
                /\ UserReturn(user, "add", [status |-> "returned",
                                            value |-> document])
          /\ UNCHANGED <<videoVars, last_video_info, probed, handles, command, raceVars, sent,
                         hpc, req, documents_file, collection, failed,
                         deleted>>

\* RAGManager.delete_document of the user's manager
UserDelete ==
    \E user \in Users : \E url \in UserUrls :
    \E embedding_deleted \in BOOLEAN :
       LET rag_manager == GetRagManager(UserId(user))[UserId(user)]
           doc_id == Md5(url)
           path == DocumentsFile(rag_manager.user_id)
           documents == ReadDocuments(path)
           new_documents == Without(documents, doc_id)
           storage_deleted == Len(new_documents) # Len(documents)
       IN /\ rag_managers' = GetRagManager(UserId(user))
          /\ chroma' = IF embedding_deleted
                       THEN [chroma EXCEPT ![rag_manager.db_path] =
                                Without(@, doc_id)]
                       ELSE chroma
          /\ \/ \* storage.delete_document raises
                /\ UserReturn(user, "delete", [status |-> "raised"])
                /\ UNCHANGED disk
             \/ /\ disk' = IF storage_deleted
                           THEN [disk EXCEPT ![path] =
                                    WriteDocuments(new_documents)]
                           ELSE disk
                /\ UserReturn(user, "delete",
                              [status |-> "returned",
                               value |-> embedding_deleted
                                         \/ storage_deleted])
          /\ UNCHANGED <<videoVars, last_video_info, probed, handles, command, raceVars,
                         upserted, sent, hpc, req, documents_file, collection,
                         clock, failed, deleted>>

\* RAGManager.clear_all_documents of the user's manager
UserClear ==
    \E user \in Users :
       LET rag_manager == GetRagManager(UserId(user))[UserId(user)]
           path == DocumentsFile(rag_manager.user_id)
           cleared == [chroma EXCEPT ![rag_manager.db_path] = <<>>]
       IN /\ rag_managers' = GetRagManager(UserId(user))
          /\ \/ \* embedding_store.clear_all raises
                /\ UserReturn(user, "clear", [status |-> "raised"])
                /\ UNCHANGED <<disk, chroma>>
             \/ \* storage.clear_documents raises
                /\ chroma' = cleared
                /\ UserReturn(user, "clear", [status |-> "raised"])
                /\ UNCHANGED disk
             \/ /\ chroma' = cleared
                /\ disk' = IF disk[path] # None
                           THEN [disk EXCEPT ![path] = WriteDocuments(<<>>)]
                           ELSE disk
                /\ UserReturn(user, "clear",
                              [status |-> "returned",
                               value |-> Len(ReadDocuments(path))])
          /\ UNCHANGED <<videoVars, last_video_info, probed, handles, command, raceVars,
                         upserted, sent, hpc, req, documents_file, collection,
                         clock, failed, deleted>>

\* RAGManager.query of the user's manager, as far as the retrieval goes
UserQuery ==
    \E user \in Users :
       LET rag_manager == GetRagManager(UserId(user))[UserId(user)]
           entries == chroma[rag_manager.db_path]
           n_results == Min({NResults, Len(entries)})
       IN /\ rag_managers' = GetRagManager(UserId(user))
          /\ IF n_results = 0
             THEN \/ UserReturn(user, "query", [status |-> "raised"])
                  \/ UserReturn(user, "query", [status |-> "returned",
                                                value |-> <<>>])
             ELSE \E r \in Rankings(entries, <<"a">>, n_results) :
                     UserReturn(user, "query",
                                [status |-> "returned",
                                 value |-> QueryDocuments(entries, <<"a">>, r)])
          /\ UNCHANGED <<videoVars, last_video_info, probed, handles, command, raceVars, disk,
                         chroma, upserted, sent, indexVarsButRet>>

\* RAGManager.get_document_list of the user's manager
UserList ==
    \E user \in Users :
       LET rag_manager == GetRagManager(UserId(user))[UserId(user)]
       IN /\ rag_managers' = GetRagManager(UserId(user))
          /\ UserReturn(user, "list",
                        [status |-> "returned",
                         value |-> ReadDocuments(
                                       DocumentsFile(rag_manager.user_id))])
          /\ UNCHANGED <<videoVars, last_video_info, probed, handles, command, raceVars, disk,
                         chroma, upserted, sent, indexVarsButRet>>

\* FileStorage.save_message with the Message a handler has built of what
\* the user wrote
SaveMessage ==
    \E user \in Users : \E content \in MessageTexts :
       LET message == [message_id |-> Decimal(clock),
                       user_id |-> UserId(user),
                       timestamp |-> clock,
                       content |-> content,
                       is_bot |-> FALSE,
                       metadata |-> None]
           path == MessagesFile(UserId(user))
           lines == IF disk[path] = None THEN <<>> ELSE disk[path][1]
       IN /\ clock < MaxUserTime
          /\ clock' = clock + 1
          /\ disk' = [disk EXCEPT ![path] =
                         Some(Append(lines, ToJson(message)))]
          /\ sent' = [sent EXCEPT ![user] = Append(@, message)]
          /\ UserReturn(user, "save", [status |-> "returned"])
          /\ UNCHANGED <<videoVars, last_video_info, probed, handles, command, raceVars, chroma,
                         rag_managers, upserted, hpc, req, documents_file,
                         collection, failed, deleted>>

\* FileStorage.get_messages
GetMessages ==
    \E user \in Users : \E limit \in Limits :
       LET messages == ReadMessages(MessagesFile(UserId(user)))
       IN /\ UserReturn(user, "messages",
                        [status |-> "returned",
                         limit |-> limit,
                         value |-> IF limit # None /\ Len(messages) > limit[1]
                                   THEN SliceFrom(messages, 0 - limit[1])
                                   ELSE messages])
          /\ UNCHANGED <<videoVars, last_video_info, probed, handles, command, raceVars, userVars,
                         indexVarsButRet>>

\* the calls made for the users, one after the other
UserNext ==
    \/ UserUpsert
    \/ UserDelete
    \/ UserClear
    \/ UserQuery
    \/ UserList
    \/ SaveMessage
    \/ GetMessages

UserSpec == Init /\ [][UserNext]_vars

(***************************************************************************)
(* RAGManager.add_document called several times for one link of one user   *)
(* with no call waiting for another: the calls are coroutines of one event *)
(* loop, and aiofiles runs each operation on the file in a worker thread.  *)
(***************************************************************************)
\* a call changes its position and its locals
CallGoes(call, to) == calls' = [calls EXCEPT ![call] = to]

\* add_document begins: the Document is built and save_document looks for
\* the file (documents_file.exists() in get_documents)
BeginAdd ==
    \E call \in Calls : \E title \in Titles :
       /\ calls[call].pc = "new"
       /\ clock' = clock + 1
       /\ CallGoes(call,
             [pc |-> IF documents_file = None /\ ~truncated
                     THEN "open" ELSE "read",
              title |-> title,
              document |-> NewDocument(WebUrl, <<"a">>, title, "web", clock),
              documents |-> <<>>])
       /\ UNCHANGED <<videoVars, last_video_info, probed, handles, command, userVars, truncated,
                      ready, landed, hpc, req, documents_file, collection,
                      ret, failed, deleted>>

\* get_documents reads the file; json.loads raises on the text of a file
\* that another call has opened for writing and not written yet
ReadFile ==
    \E call \in Calls :
       /\ calls[call].pc = "read"
       /\ IF truncated
          THEN CallGoes(call, [calls[call] EXCEPT !.pc = "raised"])
          ELSE CallGoes(call, [calls[call] EXCEPT !.pc = "open",
                                                  !.documents = GetDocuments])
       /\ UNCHANGED <<videoVars, last_video_info, probed, handles, command, userVars, truncated,
                      ready, landed, indexVars>>

\* aiofiles.open(documents_file, 'w') creates the file or truncates it
OpenFile ==
    \E call \in Calls :
       /\ calls[call].pc = "open"
       /\ truncated' = TRUE
       /\ CallGoes(call, [calls[call] EXCEPT !.pc = "write"])
       /\ UNCHANGED <<videoVars, last_video_info, probed, handles, command, userVars, ready,
                      landed, indexVars>>

\* the text that f.write was given reaches the file when it is closed
CloseFile ==
    \E call \in Calls :
       /\ calls[call].pc = "write"
       /\ documents_file' =
             WriteDocuments(SaveDocument(calls[call].documents,
                                         calls[call].document))
       /\ truncated' = FALSE
       /\ landed' = [landed EXCEPT !.file = call]
       /\ CallGoes(call, [calls[call] EXCEPT !.pc = "closed"])
       /\ UNCHANGED <<videoVars, last_video_info, probed, handles, command, userVars, ready,
                      hpc, req, collection, clock, ret, failed, deleted>>

\* the worker thread that closed the file hands the call back to the loop
WakeUp ==
    \E call \in Calls :
       /\ calls[call].pc = "closed"
       /\ ready' = Append(ready, call)
       /\ CallGoes(call, [calls[call] EXCEPT !.pc = "ready"])
       /\ UNCHANGED <<videoVars, last_video_info, probed, handles, command, userVars, truncated,
                      landed, indexVars>>

\* the loop resumes the call that has waited longest: save_document
\* returns, embedding_store.add_document runs and add_document returns
ResumeAdd ==
    /\ ready # <<>>
    /\ LET call == Head(ready)
           document == calls[call].document
       IN /\ collection' = EmbeddingAdd(collection, document.doc_id, <<"a">>,
                                        EntryMetadata(document))
          /\ landed' = [landed EXCEPT !.index = call]
          /\ CallGoes(call, [calls[call] EXCEPT !.pc = "done"])
          /\ ret' = [op |-> "add", status |-> "returned", call |-> call,
                     value |-> document]
    /\ ready' = Tail(ready)
    /\ UNCHANGED <<videoVars, last_video_info, probed, handles, command, userVars, truncated,
                   hpc, req, documents_file, clock, failed, deleted>>

\* the steps of the calls, in any order that keeps the order of each call
RaceNext ==
    \/ BeginAdd
    \/ ReadFile
    \/ OpenFile
    \/ CloseFile
    \/ WakeUp
    \/ ResumeAdd

RaceSpec == Init /\ [][RaceNext]_vars

(***************************************************************************)
(* LinkHandler.handle called for several video links with no call waiting  *)
(* for another: the calls are coroutines of one event loop and go through  *)
(* the one YouTubeProcessor of LinkHandler.processors; a call is left at   *)
(* each await and the loop may then run a step of another call.            *)
(***************************************************************************)
\* the link of a request and what yt-dlp reports for its video
RequestUrl(request) == <<"h", "t", "t", "p", "s", ":", "/", "/", "y", "o", "u", "t", "u", ".", "b", "e", "/", "v">> \o Decimal(request)
MetaOf(request) ==
    [id |-> <<"v">> \o Decimal(request),
     title |-> <<"V">> \o Decimal(request),
     duration |-> 74 + request]

\* a handle call changes its position and its locals
HandleGoes(request, to) == handles' = [handles EXCEPT ![request] = to]

\* handle is entered for a video link and extract_content awaits the probe
ShareHandle ==
    \E request \in Requests :
       /\ handles[request].pc = "new"
       /\ HandleGoes(request, [handles[request] EXCEPT !.pc = "probe"])
       /\ UNCHANGED <<videoVars, last_video_info, indexVars, probed,
                      userVars, raceVars, command>>

\* the probe is back: info = ..., self._last_video_info = info, and the
\* call awaits the tiers
ShareGetVideoInfo ==
    \E request \in Requests : \E i \in {MetaOf(request), NoInfo} :
       /\ handles[request].pc = "probe"
       /\ last_video_info' = i
       /\ HandleGoes(request, [handles[request] EXCEPT !.pc = "tiers",
                                                       !.info = i])
       /\ UNCHANGED <<videoVars, indexVars, probed, userVars, raceVars,
                      command>>

\* the tiers are back: extract_content returns the transcript or raises,
\* and handle goes on to get_document_name or to its except branch
ShareExtracted ==
    \E request \in Requests : \E to \in {"name", "failed"} :
       /\ handles[request].pc = "tiers"
       /\ HandleGoes(request, [handles[request] EXCEPT !.pc = to])
       /\ UNCHANGED <<videoVars, last_video_info, indexVars, probed,
                      userVars, raceVars, command>>

\* get_document_name: the title of self._last_video_info, else that of a
\* probe of its own, else the name made of the video id; handle then awaits
\* the edit of the status message
ShareGetDocumentName ==
    \E request \in Requests :
       /\ handles[request].pc = "name"
       /\ IF VideoTitle(last_video_info) # None
          THEN HandleGoes(request,
                  [handles[request] EXCEPT
                      !.pc = "summary",
                      !.doc_name = VideoTitle(last_video_info)[1]])
          ELSE \E i \in {MetaOf(request), NoInfo} :
                  HandleGoes(request,
                     [handles[request] EXCEPT
                         !.pc = "summary",
                         !.doc_name =
                            IF VideoTitle(i) # None THEN VideoTitle(i)[1]
                            ELSE <<"Y", "o", "u", "T", "u", "b", "e", " ", "V", "i", "d", "e", "o", " ">>
                                 \o ExtractVideoId(RequestUrl(request))[1]])
       /\ UNCHANGED <<videoVars, last_video_info, indexVars, probed,
                      userVars, raceVars, command>>

\* _generate_summary asks the processor for the duration
ShareGenerateSummary ==
    \E request \in Requests :
       /\ handles[request].pc = "summary"
       /\ HandleGoes(request,
             [handles[request] EXCEPT
                 !.pc = "done",
                 !.duration = VideoDuration(last_video_info)])
       /\ UNCHANGED <<videoVars, last_video_info, indexVars, probed,
                      userVars, raceVars, command>>

\* the steps of the calls, in any order that keeps the order of each call
ShareNext ==
    \/ ShareHandle
    \/ ShareGetVideoInfo
    \/ ShareExtracted
    \/ ShareGetDocumentName
    \/ ShareGenerateSummary

ShareSpec == Init /\ [][ShareNext]_vars

(***************************************************************************)
(* RAGManager.add_document and RAGManager.delete_document called for       *)
(* different documents of one user with no call waiting for another: each  *)
(* add_document is for a link of its own, each delete_document for a       *)
(* document an earlier add_document has left.                              *)
(***************************************************************************)
\* the link of each add_document call, and the link added before the calls
LostUrls == <<WebUrl, PdfUrl, VideoUrl>>
EarlierUrl == RepoUrl

\* an add_document that has ended before any of the calls began
LostEarlier ==
    /\ \A call \in Calls : calls[call].pc = "new"
    /\ clock = 0
    /\ AddDocument(EarlierUrl, <<"a">>, <<"T">>, ClassifyUrl(EarlierUrl))
    /\ UNCHANGED <<videoVars, last_video_info, extraVars, hpc, req>>

\* add_document begins for the link of the call: the Document is built and
\* save_document looks for the file (documents_file.exists())
LostBeginAdd ==
    \E call \in Calls :
       /\ calls[call].pc = "new"
       /\ clock' = clock + 1
       /\ CallGoes(call,
             [pc |-> IF documents_file = None /\ ~truncated
                     THEN "open" ELSE "read",
              title |-> <<"T">>,
              document |-> NewDocument(LostUrls[call], <<"a">>, <<"T">>,
                                       ClassifyUrl(LostUrls[call]), clock),
              documents |-> <<>>])
       /\ UNCHANGED <<videoVars, last_video_info, probed, handles, command, userVars,
                      truncated, ready, landed, hpc, req, documents_file,
                      collection, ret, failed, deleted>>

\* delete_document begins for the earlier document: the entry is removed
\* from the collection (False when that raised), and storage.delete_document
\* looks for the file; with no file it has nothing to delete
LostBeginDelete ==
    \E call \in Calls : \E embedding_deleted \in BOOLEAN :
       /\ calls[call].pc = "new"
       /\ collection' = IF embedding_deleted
                        THEN Without(collection, Md5(EarlierUrl))
                        ELSE collection
       /\ CallGoes(call,
             [pc |-> IF documents_file = None /\ ~truncated
                     THEN "deleted" ELSE "delete_read",
              title |-> <<>>,
              document |-> [doc_id |-> Md5(EarlierUrl)],
              documents |-> <<>>])
       /\ UNCHANGED <<videoVars, last_video_info, probed, handles, command, userVars,
                      truncated, ready, landed, hpc, req, documents_file,
                      clock, ret, failed, deleted>>

\* get_documents reads the file for delete_document, which returns False
\* when the document is not among those read
LostDeleteRead ==
    \E call \in Calls :
       /\ calls[call].pc = "delete_read"
       /\ IF truncated
          THEN CallGoes(call, [calls[call] EXCEPT !.pc = "raised"])
          ELSE CallGoes(call,
                  [calls[call] EXCEPT
                      !.pc = IF Len(Without(GetDocuments,
                                            calls[call].document.doc_id))
                                = Len(GetDocuments)
                             THEN "deleted" ELSE "delete_open",
                      !.documents = GetDocuments])
       /\ UNCHANGED <<videoVars, last_video_info, probed, handles, command, userVars,
                      truncated, ready, landed, indexVars>>

\* aiofiles.open(documents_file, 'w') truncates the file
LostDeleteOpen ==
    \E call \in Calls :
       /\ calls[call].pc = "delete_open"
       /\ truncated' = TRUE
       /\ CallGoes(call, [calls[call] EXCEPT !.pc = "delete_write"])
       /\ UNCHANGED <<videoVars, last_video_info, probed, handles, command, userVars,
                      ready, landed, indexVars>>

\* the documents read, without the deleted one, reach the file when it is
\* closed, and delete_document returns True
LostDeleteClose ==
    \E call \in Calls :
       /\ calls[call].pc = "delete_write"
       /\ documents_file' =
             WriteDocuments(Without(calls[call].documents,
                                    calls[call].document.doc_id))
       /\ truncated' = FALSE
       /\ landed' = [landed EXCEPT !.file = call]
       /\ CallGoes(call, [calls[call] EXCEPT !.pc = "deleted"])
       /\ UNCHANGED <<videoVars, last_video_info, probed, handles, command, userVars,
                      ready, hpc, req, collection, clock, ret, failed,
                      deleted>>

\* the steps of the calls, in any order that keeps the order of each call
LostNext ==
    \/ LostEarlier
    \/ LostBeginAdd
    \/ ReadFile
    \/ OpenFile
    \/ CloseFile
    \/ WakeUp
    \/ ResumeAdd
    \/ LostBeginDelete
    \/ LostDeleteRead
    \/ LostDeleteOpen
    \/ LostDeleteClose

LostSpec == Init /\ [][LostNext]_vars

(***************************************************************************)
(* CommandHandler: /list and /delete of one user, one after the other.     *)
(***************************************************************************)
\* int(s) for a string without whitespace: an optional sign, then digits
\* with single underscores between them; None stands for the ValueError
DigitValue(c) == CHOOSE n \in 0..9 : Decimal(n) = <<c>>

RECURSIVE DigitsValue(_)
DigitsValue(s) ==
    IF s = <<>> THEN 0
    ELSE 10 * DigitsValue(SubSeq(s, 1, Len(s) - 1)) + DigitValue(s[Len(s)])

IntOf(s) ==
    LET signed == s # <<>> /\ s[1] \in {"+", "-"}
        body == IF signed THEN Tail(s) ELSE s
        ok == /\ body # <<>>
              /\ IsDigit(body[1])
              /\ IsDigit(body[Len(body)])
              /\ \A k \in 1..Len(body) : IsDigit(body[k]) \/ body[k] = "_"
              /\ \A k \in 1..(Len(body) - 1) :
                    ~(body[k] = "_" /\ body[k + 1] = "_")
        value == DigitsValue(SelectSeq(body, IsDigit))
    IN IF ~ok THEN None
       ELSE IF signed /\ s[1] = "-" THEN Some(0 - value)
       ELSE Some(value)

\* context.args of the /delete commands the user sends
DeleteArgs ==
    { <<>>, <<<<"0">>>>, <<<<"1">>>>, <<<<"2">>>>, <<<<"3">>>>, <<<<"4">>>>,
      <<<<"-", "1">>>>, <<<<"+", "2">>>>, <<<<"x">>>>, <<<<"2", "n", "d">>>> }

\* the numbered items of the reply of /list
Shown(documents) ==
    [i \in 1..Len(documents) |->
        [number |-> Decimal(i),
         title |-> documents[i].title,
         url |-> documents[i].url,
         content_type |-> documents[i].content_type,
         added_at |-> documents[i].added_at]]

\* a command replies and leaves the Document Index alone
Replied(name, args, reply, items) ==
    /\ command' = [name |-> name, args |-> args, reply |-> reply,
                   items |-> items]
    /\ UNCHANGED <<documents_file, collection, ret, failed, deleted>>

\* CommandHandler.handle_list
HandleList ==
    /\ hpc = "idle"
    /\ IF GetDocuments = <<>>
       THEN Replied("list", <<>>, "no documents", <<>>)
       ELSE Replied("list", <<>>, "listed", Shown(GetDocuments))
    /\ UNCHANGED <<videoVars, last_video_info, hpc, req, clock, probed,
                   userVars, raceVars, handles>>

\* handle_delete that counts the documents from 0
HandleDeleteFromZero ==
    /\ hpc = "idle"
    /\ \E args \in DeleteArgs :
          IF args = <<>>
          THEN Replied("delete", args, "usage", <<>>)
          ELSE IF IntOf(args[1]) = None
          THEN Replied("delete", args, "invalid number", <<>>)
          ELSE LET doc_number == IntOf(args[1])[1]
                   documents == GetDocuments
               IN IF doc_number < 0 \/ doc_number >= Len(documents)
                  THEN Replied("delete", args, "invalid document number", <<>>)
                  ELSE /\ DeleteDocumentOp(documents[doc_number + 1].doc_id)
                       /\ command' =
                             [name |-> "delete",
                              args |-> args,
                              reply |->
                                 IF ret'.status = "raised" THEN "none"
                                 ELSE IF ret'.value THEN "deleted"
                                 ELSE "failed",
                              items |->
                                 IF ret'.status = "returned" /\ ret'.value
                                 THEN <<documents[doc_number + 1].title>>
                                 ELSE <<>>]
    /\ UNCHANGED <<videoVars, last_video_info, hpc, req, clock, probed,
                   userVars, raceVars, handles>>

\* CommandHandler.handle_delete
HandleDelete ==
    /\ hpc = "idle"
    /\ \E args \in DeleteArgs :
          IF args = <<>>
          THEN Replied("delete", args, "usage", <<>>)
          ELSE IF IntOf(args[1]) = None
          THEN Replied("delete", args, "invalid number", <<>>)
          ELSE LET doc_number == IntOf(args[1])[1]
                   documents == GetDocuments
               IN IF doc_number < 1 \/ doc_number > Len(documents)
                  THEN Replied("delete", args, "invalid document number", <<>>)
                  ELSE /\ DeleteDocumentOp(documents[doc_number].doc_id)
                       /\ command' =
                             [name |-> "delete",
                              args |-> args,
                              reply |->
                                 IF ret'.status = "raised" THEN "none"
                                 ELSE IF ret'.value THEN "deleted"
                                 ELSE "failed",
                              items |->
                                 IF ret'.status = "returned" /\ ret'.value
                                 THEN <<documents[doc_number].title>>
                                 ELSE <<>>]
    /\ UNCHANGED <<videoVars, last_video_info, hpc, req, clock, probed,
                   userVars, raceVars, handles>>

\* RAGManager.add_document for a link the user has sent
CommandUpsert ==
    /\ hpc = "idle"
    /\ \E url \in ListUrls :
          AddDocument(url, <<"a">>, <<"T">>, ClassifyUrl(url))
    /\ UNCHANGED <<videoVars, extraVars, last_video_info, hpc, req>>

\* the user adds links and sends /list and /delete
CommandNext ==
    \/ CommandUpsert
    \/ HandleList
    \/ HandleDelete

CommandSpec == Init /\ [][CommandNext]_vars

(***************************************************************************)
(* Properties of the video caption extractor.                              *)
(***************************************************************************)
Last(s) == s[Len(s)]

\* the first n delays of the backoff policy
BackoffPlan(n) == SubSeq(<<3, 7>>, 1, n)

\* extract_content has returned or raised
Extracted == pc \in {"summary", "done"}

\* C1: when all three transcript-service calls of an extraction were
\* rate-limited, tier 3 is never invoked (no candidate list is built, no
\* download is made) and the extraction raises the rate-limited error, not
\* the not-found error.
C1_RateLimitSkipsTier3 ==
    t2log = <<"rl", "rl", "rl">> =>
        /\ pc = "done"
        /\ langs_to_try = <<>>
        /\ lastDl = NoDownload
        /\ dlCount = 0
        /\ result.status = "raised"
        /\ result.error = RateLimitedError

C1_Witness ==
    /\ t2log = <<"rl", "rl", "rl">>
    /\ pc = "done"
    /\ result.status = "raised"

\* C2: an extraction that produced no text raises the rate-limited error
\* exactly when tier 2 ended rate-limited or tier 3 ended on a download that
\* spent its three attempts on rate-limit signals, and the not-found error
\* otherwise.
C2_RateLimitedIffAnyTierExhausted ==
    (pc = "done" /\ result.status = "raised") =>
        /\ (result.error = RateLimitedError)
              <=> (rate_limited \/ lastDl.kind = "rl")
        /\ (result.error = NotFoundError)
              <=> ~(rate_limited \/ lastDl.kind = "rl")

\* C3: when tier 2 ended on an error that is no rate-limit signal, or with no
\* track, the tier is not marked rate-limited and tier 3 is invoked, whatever
\* the earlier attempts of the tier met.
C3_OtherErrorFallsThrough ==
    (t2log # <<>> /\ Last(t2log) \in {"err", "notrack"}) =>
        /\ pc \in {"tier3", "summary", "done"}
        /\ ~rate_limited
        /\ langs_to_try # <<>>
        /\ lastDl = NoDownload => (pc = "tier3" /\ langIdx = 1)

C3_Witness ==
    /\ t2log = <<"rl", "rl", "err">>
    /\ pc = "tier3"

\* C4: when tier 2 gave no text without being rate-limited, the download for
\* English gave nothing and the download for the original, non-English
\* language gave a non-empty parsed transcript, the extraction returns, and
\* returns that transcript (under the heading, whitespace collapsed).
C4_OriginalLanguageTranscript ==
    (/\ lastDl.kind = "text"
     /\ lastDl.lang = original_lang
     /\ original_lang \notin {En, NoLang}) =>
        /\ Extracted
        /\ ~rate_limited
        /\ langIdx = 2
        /\ subtitle_text = lastDl.text
        /\ result.status = "returned"
        /\ result.text = Heading \o NormalizeTranscript(lastDl.text[1])

C4_Witness ==
    /\ pc = "done"
    /\ lastDl.kind = "text"
    /\ lastDl.lang = De
    /\ original_lang = De
    /\ result.text =
          Heading \o <<"h","i"," ","y","o","u"," ","f","o","o">>

\* C5: tier 2 calls the transcript service at most three times, a further
\* call follows only a rate-limited one, and a call that ended otherwise
\* ends the tier.
C5_Tier2Attempts ==
    /\ Len(t2log) <= 3
    /\ \A i \in 1..(Len(t2log) - 1) : t2log[i] = "rl"
    /\ pc = "tier2" =>
          /\ attempt = Len(t2log)
          /\ attempt < 3
          /\ \A i \in 1..Len(t2log) : t2log[i] = "rl"

C5_Witness ==
    /\ t2log = <<"rl", "rl", "notrack">>
    /\ pc = "tier3"
    /\ lastDl = NoDownload

\* C6: in tier 2 and in every tier-3 download loop the delays slept are 3
\* seconds before the second attempt and 7 seconds before the third, and
\* none after the attempt that ended the loop.
C6_BackoffDelays ==
    /\ pc = "tier2" => sleeps = BackoffPlan(attempt)
    /\ (pc # "tier2" /\ t2log # <<>> /\ dlCount = 0) =>
          sleeps = BackoffPlan(Len(t2log) - 1)
    /\ (pc = "tier3" /\ dlAttempt > 0) => sleeps = BackoffPlan(dlAttempt)
    /\ (/\ lastDl.kind # "none"
        /\ Extracted \/ (pc = "tier3" /\ dlAttempt = 0)) =>
          sleeps = BackoffPlan(dlCount - 1)

C6_Witness ==
    /\ pc = "tier3"
    /\ langIdx = 2
    /\ dlAttempt = 0
    /\ dlCount = 3
    /\ sleeps = <<3, 7>>
    /\ lastDl.kind = "err"

\* C7: every candidate language of tier 3 gets at most three downloads, a
\* further one only after a rate-limited one, and starts with none used,
\* whatever tier 2 and the earlier languages used.
C7_PerLanguageBudget ==
    /\ dlCount <= 3
    /\ pc = "tier3" =>
          /\ dlAttempt <= 2
          /\ dlAttempt > 0 =>
                /\ lastDl.kind = "rl"
                /\ lastDl.lang = langs_to_try[langIdx]
                /\ dlCount = dlAttempt
          /\ (lastDl.kind = "none" \/ lastDl.lang # langs_to_try[langIdx]) =>
                dlAttempt = 0

C7_Witness ==
    /\ pc = "tier3"
    /\ Len(t2log) = 3
    /\ langIdx = 3
    /\ lastDl.kind = "rl"
    /\ dlCount = 3
    /\ dlAttempt = 0

\* the lists the metadata probe reported
ManualCaptions == IF info # NoInfo THEN info.subtitles ELSE <<>>
AutoCaptions == IF info # NoInfo THEN info.automatic_captions ELSE <<>>

\* the first position of x in s
FirstAt(s, x) == CHOOSE i \in 1..Len(s) : s[i] = x /\ \A j \in 1..(i - 1) : s[j] # x

\* C8: the candidate list of tier 3 is "en", the original language if it is
\* not "en", the languages with manual captions and the languages with
\* automatic captions, in this order and in reported order, each once.
C8_CandidateList ==
    langs_to_try # <<>> =>
        LET listed == <<En>>
                      \o (IF original_lang # En THEN <<original_lang>>
                          ELSE <<>>)
                      \o ManualCaptions \o AutoCaptions
        IN /\ Range(langs_to_try) = Range(listed)
           /\ \A i, j \in 1..Len(langs_to_try) :
                 i < j => FirstAt(listed, langs_to_try[i])
                          < FirstAt(listed, langs_to_try[j])

C8_Witness ==
    /\ info # NoInfo
    /\ info.subtitles = <<Fr>>
    /\ info.automatic_captions = <<De>>
    /\ langs_to_try = <<En, De, Fr>>

\* C9: tier 3 downloads the candidate languages in list order, one at a
\* time, turns to a language only after the one before it gave nothing, and
\* downloads nothing after the first non-empty parsed transcript.
C9_FirstTranscriptWins ==
    /\ pc = "tier3" =>
          /\ langIdx \in 1..Len(langs_to_try)
          /\ (dlAttempt = 0 /\ langIdx = 1) => lastDl = NoDownload
          /\ (dlAttempt = 0 /\ langIdx > 1) =>
                /\ lastDl.lang = langs_to_try[langIdx - 1]
                /\ lastDl.kind \in {"rl", "err", "nofile", "empty"}
                /\ ~Truthy(lastDl.text)
          /\ dlAttempt > 0 => lastDl.lang = langs_to_try[langIdx]
    /\ lastDl.kind = "text" =>
          /\ Extracted
          /\ lastDl.lang = langs_to_try[langIdx]
          /\ subtitle_text = lastDl.text
    /\ (Extracted /\ lastDl.kind \notin {"none", "text"}) =>
          /\ langIdx = Len(langs_to_try)
          /\ lastDl.lang = langs_to_try[langIdx]

C9_Witness ==
    /\ pc = "done"
    /\ lastDl.kind = "text"
    /\ langIdx = 2
    /\ Len(langs_to_try) = 4

\* C10: after a failed metadata probe the extraction goes on: tier 2 runs
\* with the priority list ["en"], tier 3 with the candidate list ["en"], and
\* the duration of a returned transcript is "Unknown".
C10_ProbeFailureNotFatal ==
    (info = NoInfo /\ pc \notin {"idle", "probe"}) =>
        /\ original_lang = En
        /\ pc = "tier2" \/ t2log # <<>>
        /\ priority_langs \in {<<>>, <<En>>}
        /\ langs_to_try \in {<<>>, <<En>>}
        /\ pc = "done" =>
              \/ result.status = "returned" /\ duration = Unknown
              \/ /\ result.status = "raised"
                 /\ result.error \in {RateLimitedError, NotFoundError}

C10_Witness ==
    /\ info = NoInfo
    /\ pc = "done"
    /\ result.status = "returned"
    /\ langs_to_try = <<En>>
    /\ duration = Unknown

(***************************************************************************)
(* Properties of the link handler and of the Document Index.               *)
(***************************************************************************)
\* C11: get_document_name never raises: no handled link ends in the except
\* branch of the handler because the name of the document could not be
\* found, whatever the processor and whatever the network does.
C11_NameNeverRaises ==
    ~(ret.op = "link" /\ ret.status = "raised" /\ ret.stage = "name")

\* C12: when the extraction of a handled link fails, the handling ends
\* there, in the except branch, with documents.json and the collection as
\* they were when the link arrived; add_document is reached only with an
\* extracted text.
C12_FailedExtractionLeavesIndex ==
    /\ [](hpc = "add" => req.content \in LinkContents)
    /\ [][/\ (hpc = "extract" \/ hpc' = "extract") =>
                UNCHANGED <<documents_file, collection>>
          /\ (hpc = "extract" /\ hpc' # "name") =>
                /\ hpc' = "idle"
                /\ ret'.op = "link"
                /\ ret'.status = "raised"
                /\ ret'.stage = "extract"]_vars

C12_Witness ==
    /\ hpc = "idle"
    /\ ret.op = "link"
    /\ ret.stage = "extract"
    /\ Len(GetDocuments) = 1
    /\ Len(collection) = 1

\* the doc_ids of a list of documents or of entries
Ids(list) == {list[i].doc_id : i \in 1..Len(list)}

\* C13: however many times a URL was upserted, the Document list and the
\* vector index hold at most one entry of its doc_id, and when an upsert has
\* returned they hold exactly one, which carries the title, the preview, the
\* timestamp and the text of that upsert.
C13_UpsertIdempotent ==
    /\ \A doc_id \in DocIds :
          /\ Cardinality(IdxOf(GetDocuments, doc_id)) <= 1
          /\ Cardinality(IdxOf(collection, doc_id)) <= 1
    /\ (ret.op = "add" /\ ret.status = "returned") =>
          /\ \E i \in 1..Len(GetDocuments) :
                /\ IdxOf(GetDocuments, ret.doc_id) = {i}
                /\ GetDocuments[i] = ret.document
                /\ GetDocuments[i].added_at = clock - 1
          /\ \E i \in 1..Len(collection) :
                /\ IdxOf(collection, ret.doc_id) = {i}
                /\ collection[i].document = ret.content
                /\ collection[i].metadata = EntryMetadata(ret.document)

\* a second upsert has returned, with another title and another text than
\* the first, and the stores hold one entry
C13_Witness ==
    /\ ret.op = "add"
    /\ ret.status = "returned"
    /\ clock = 2
    /\ ~failed
    /\ \A doc_id \in DocIds : deleted[doc_id] = "no"
    /\ Len(GetDocuments) = 1
    /\ Len(collection) = 1
    /\ GetDocuments[1].added_at = 1
    /\ GetDocuments[1].title = <<"U">>
    /\ collection[1].document = <<"a", "b", "c">>

\* C14: a delete of a doc_id that neither the Document list nor the vector
\* index holds returns False, and changes neither store.
C14_DeleteAbsentReturnsFalse ==
    [][(/\ ret'.op = "delete"
        /\ ret'.status = "returned"
        /\ IdxOf(GetDocuments, ret'.doc_id) = {}
        /\ IdxOf(collection, ret'.doc_id) = {}) =>
           /\ ret'.value = FALSE
           /\ UNCHANGED <<documents_file, collection>>]_vars

\* what FileStorage.get_documents and a query of every text and every k can
\* show of doc_id
Listed(doc_id) == doc_id \in Ids(GetDocuments)
Queryable(doc_id) == doc_id \in Ids(collection)

C16_DeleteReportsEitherOutcome ==
    [][ret'.op = "delete" =>
          /\ ret'.status = "returned" =>
                ret'.value = (ret'.embedding_deleted \/ ret'.storage_deleted)
          /\ (\/ /\ IdxOf(collection, ret'.doc_id) # {}
                  /\ IdxOf(collection', ret'.doc_id) = {}
               \/ /\ IdxOf(GetDocuments, ret'.doc_id) # {}
                  /\ IdxOf(GetDocuments', ret'.doc_id) = {}) =>
                /\ ret'.status = "returned"
                /\ ret'.value = TRUE]_vars

\* C17: a clear that returns, returns the number of documents the list held
\* right before it, and leaves the list and the vector index empty.
C17_ClearReturnsCount ==
    [][(ret'.op = "clear" /\ ret'.status = "returned") =>
          /\ ret'.value = Len(GetDocuments)
          /\ GetDocuments' = <<>>
          /\ collection' = <<>>]_vars

\* a clear of two documents has returned
C17_Witness ==
    /\ ret.op = "clear"
    /\ ret.status = "returned"
    /\ ret.value = 2
    /\ GetDocuments = <<>>
    /\ collection = <<>>

\* C18: a query of an empty vector index returns the empty sequence and
\* raises nothing, for every k; the number of results asked of the collection
\* is min(k, size of the index).
C18_EmptyIndexQuery ==
    ret.op = "query" =>
       /\ ret.n_results = Min({ret.k, Len(collection)})
       /\ collection = <<>> =>
             /\ ret.status = "returned"
             /\ ret.value = <<>>

\* the entries of the collection, other than doc_id's, whose text is text
SameText(doc_id, text) ==
    {i \in 1..Len(collection) :
        collection[i].doc_id # doc_id /\ collection[i].document = text}

\* the doc_ids a returned query holds, in order
ResultIds(value) == [i \in 1..Len(value) |-> value[i].id]

C20_StoresAgree ==
    ~failed => Ids(GetDocuments) = Ids(collection)

\* after two upserts and a delete that removed one of the two documents from
\* both stores, with no failure, one doc_id is left in both
C20_Witness ==
    /\ ~failed
    /\ clock = 2
    /\ ret.op = "delete"
    /\ ret.status = "returned"
    /\ ret.embedding_deleted
    /\ ret.storage_deleted
    /\ Len(GetDocuments) = 1
    /\ Len(collection) = 1

(***************************************************************************)
(* Properties of the order of the upstream calls.                          *)
(***************************************************************************)
\* C30: within one video extraction the upstream calls follow one another:
\* the metadata probe is the only call of its step and is over before the
\* first call of the transcript service, a call of the transcript service is
\* the only call of its step and none is made once a download has started,
\* and a download is the only call of its step.
C30_StrictlySequential ==
    [][/\ pc = "probe" =>
             /\ t2log = <<>> /\ t2log' = <<>>
             /\ lastDl = NoDownload /\ lastDl' = NoDownload
             /\ pc' = "tier2"
       /\ pc = "tier2" =>
             /\ Len(t2log') = Len(t2log) + 1
             /\ info' = info
             /\ lastDl = NoDownload /\ lastDl' = NoDownload
       /\ pc = "tier3" =>
             /\ t2log' = t2log
             /\ info' = info
             /\ lastDl' # NoDownload
             /\ pc' # "tier2" /\ pc' # "probe"]_vars

\* an extraction that made the probe, two calls of the transcript service
\* and a download is over
C30_Witness ==
    /\ pc = "done"
    /\ info # NoInfo
    /\ Len(t2log) = 2
    /\ lastDl # NoDownload

(***************************************************************************)
(* Properties of the extractors and of the classification of links.        *)
(***************************************************************************)
\* the candidate locations of the README of the repository of url
Candidates(url) ==
    ReadmeUrls(ParseGithubUrl(url)[1].owner, ParseGithubUrl(url)[1].repo)

\* C25: the README extractor probes its candidate locations in list order
\* and makes no probe after one that answered with the README; it returns
\* the text of that probe (stripped); a probe that raises or answers
\* otherwise is a miss and the next candidate is probed; when all six miss
\* the extraction raises, and when the url cannot be parsed it raises without
\* a probe.
C25_ReadmeProbes ==
    /\ \A i \in 1..Len(probed) :
          /\ ParseGithubUrl(req.url) # None
          /\ i <= Len(Candidates(req.url))
          /\ probed[i].url = Candidates(req.url)[i]
          /\ i < Len(probed) => probed[i].result # "ok"
    /\ (/\ probed # <<>>
        /\ Last(probed).result # "ok"
        /\ Len(probed) < Len(Candidates(req.url))) =>
           /\ hpc = "extract"
           /\ ret.op # "extract"
    /\ (ret.op = "extract" /\ ret.processor = "github") =>
          \/ /\ ret.status = "returned"
             /\ probed # <<>>
             /\ Last(probed).result = "ok"
             /\ ret.value = Strip(Last(probed).content)
          \/ /\ ret.status = "raised"
             /\ ret.error = "not found"
             /\ Len(probed) = Len(Candidates(req.url))
             /\ \A i \in 1..Len(probed) : probed[i].result # "ok"
          \/ /\ ret.status = "raised"
             /\ ret.error = "parse"
             /\ ParseGithubUrl(req.url) = None
             /\ probed = <<>>

\* the README was returned by the third probe, after a probe that raised and
\* one that answered 404
C25_Witness ==
    /\ ret.op = "extract"
    /\ ret.processor = "github"
    /\ ret.status = "returned"
    /\ Len(probed) = 3
    /\ probed[1].result = "error"
    /\ probed[2].result = "miss"
    /\ probed[3].url = <<"h", "t", "t", "p", "s", ":", "/", "/", "r", "a", "w", ".", "g", "i", "t", "h", "u", "b", "u", "s", "e", "r", "c", "o", "n", "t", "e", "n", "t", ".", "c", "o", "m", "/", "o", "/", "r", "/", "m", "a", "i", "n", "/", "R", "e", "a", "d", "m", "e", ".", "m", "d">>

\* the numbers of the pages of a PDF file whose text is not all whitespace
TextPages(pages) ==
    {i \in 1..Len(pages) : \E k \in 1..Len(pages[i]) : ~IsSpace(pages[i][k])}

\* the elements of a set of numbers, smallest first
RECURSIVE Ascending(_)
Ascending(S) ==
    IF S = {} THEN <<>> ELSE <<Min(S)>> \o Ascending(S \ {Min(S)})

\* the section of page i
Section(pages, i) ==
    <<"#", "#", " ", "P", "a", "g", "e", " ">> \o Decimal(i) \o <<"\n", "\n">> \o Strip(pages[i])

\* C26: the text PDF extraction returns is made of one section per page with
\* text that is not all whitespace, in page order, each headed with the
\* number of its page counted from 1, and of nothing else; when no page has
\* such text the extraction raises for want of text.
C26_PdfSections ==
    (ret.op = "extract" /\ ret.processor = "pdf" /\ "pages" \in DOMAIN ret) =>
       LET with_text == Ascending(TextPages(ret.pages))
       IN IF with_text = <<>>
          THEN /\ ret.status = "raised"
               /\ ret.error = "no text"
          ELSE /\ ret.status = "returned"
               /\ ret.value =
                     Join(<<"\n", "\n">>, [k \in 1..Len(with_text) |->
                                      Section(ret.pages, with_text[k])])

\* a file whose second page alone has text gave the section of page 2
C26_Witness ==
    /\ ret.op = "extract"
    /\ ret.processor = "pdf"
    /\ ret.status = "returned"
    /\ ret.pages = <<<<" ", "\n">>, <<" ", "b", "\n">>>>
    /\ ret.value = <<"#", "#", " ", "P", "a", "g", "e", " ", "2", "\n", "\n", "b">>

\* C27: web extraction ends with a failure when the fetch raises, when the
\* status of the response is not one of 200..299 and when the body of the
\* response is empty; the text it returns is never empty.
C27_WebFailures ==
    (/\ ret.op = "extract"
     /\ ret.processor = "web"
     /\ ret.status = "returned") =>
       /\ ret.http_status \in 200..299
       /\ ret.html # <<>>
       /\ ret.value # <<>>

\* the lines of a subtitle file that are not dropped: stripped, they are not
\* empty, no header, note, style or cue-style line, no timing line and not
\* made of digits only
KeptLines(content) ==
    LET raw == SplitLines(content)
    IN Ascending({i \in 1..Len(raw) : KeepVttLine(Strip(raw[i]))})

\* the kept lines of a subtitle file with their tags removed
Untagged(content) ==
    LET raw == SplitLines(content)
        kept == KeptLines(content)
    IN [k \in 1..Len(kept) |-> RemoveTags(Strip(raw[kept[k]]))]

\* C28 as stated: parsing returns the kept lines, their tags removed, joined
\* by single spaces, and no text when no line is kept.
C28_ParseAsStated ==
    (ret.op = "extract" /\ "vtt" \in DOMAIN ret) =>
       ret.parsed = IF Untagged(ret.vtt) = <<>> THEN None
                    ELSE Some(Join(<<" ">>, Untagged(ret.vtt)))

\* C28: parsing returns, joined by single spaces, the kept lines with their
\* tags removed, save the lines that removing the tags leaves empty; it
\* returns no text when no line remains; the file with a header, a timing
\* line, 'Hello <b>world</b>', '1' and 'foo' gives 'Hello world foo'.
C28_ParseDropsEmptied ==
    (ret.op = "extract" /\ "vtt" \in DOMAIN ret) =>
       LET remaining == SelectSeq(Untagged(ret.vtt), LAMBDA line : line # <<>>)
       IN /\ ret.parsed = IF remaining = <<>> THEN None
                          ELSE Some(Join(<<" ">>, remaining))
          /\ ret.status = "raised" <=> remaining = <<>>
          /\ ret.vtt = <<"W", "E", "B", "V", "T", "T", "\n", "\n", "0", "0", ":", "0", "1", " ", "-", "-", ">", " ", "0", "0", ":", "0", "2", "\n", "H", "e", "l", "l", "o", " ", "<", "b", ">", "w", "o", "r", "l", "d", "<", "/", "b", ">", "\n", "1", "\n", "f", "o", "o">>
                => ret.parsed = Some(<<"H", "e", "l", "l", "o", " ", "w", "o", "r", "l", "d", " ", "f", "o", "o">>)

\* a file with a note, a style block, a number and a line of tags only was
\* parsed to its two lines of text
C28_Witness ==
    /\ ret.op = "extract"
    /\ ret.processor = "youtube"
    /\ "vtt" \in DOMAIN ret
    /\ ret.vtt = <<"W", "E", "B", "V", "T", "T", "\n", "N", "O", "T", "E", " ", "n", "\n", "S", "T", "Y", "L", "E", "\n", ":", ":", "c", "u", "e", "\n", " ", "7", " ", "\n", "a", "\n", "<", "c", ">", "<", "/", "c", ">", "\n", "b">>
    /\ Len(KeptLines(ret.vtt)) = 3
    /\ ret.parsed = Some(<<"a", " ", "b">>)

\* the path of a url ends in .pdf, in small or capital letters
PathEndsInPdf(url) ==
    LET path == UrlPath(url)
    IN /\ Len(path) >= 4
       /\ [k \in 1..4 |-> ToLower(path[Len(path) - 4 + k])] = <<".", "p", "d", "f">>

\* a class is the one of a url, given which urls count as PDF links: the
\* video pattern goes first, then the repository pattern, then the PDF links
IsClassOf(class, url, is_pdf) ==
    /\ class \in {"youtube", "github", "pdf", "web"}
    /\ class = "youtube" <=> IsYoutubeUrl(url)
    /\ class = "github" <=> (~IsYoutubeUrl(url) /\ IsGithubUrl(url))
    /\ class = "pdf" <=> (~IsYoutubeUrl(url) /\ ~IsGithubUrl(url) /\ is_pdf)

\* the extraction that follows a classification is made by the processor of
\* the class found
DispatchedByClass ==
    /\ (ret.op = "classify" /\ ret'.op = "extract") =>
          ret'.processor = ret.value
    /\ (ret.op = "classify" /\ probed' # probed) => ret.value = "github"

\* C29 as stated: a link is put in one class of four, youtube before github
\* before pdf before web, a PDF link being one whose path ends in .pdf, and
\* the handler calls the extractor of that class.
C29_ClassifiedByPath ==
    [][/\ ret'.op = "classify" =>
             IsClassOf(ret'.value, req'.url, PathEndsInPdf(req'.url))
       /\ DispatchedByClass]_vars

\* C29: a link is put in one class of four, youtube before github before pdf
\* before web, a PDF link being one in which .pdf, in small or capital
\* letters, stands right before a ?, a # or the end of the link, in the path
\* or after it, and the handler calls the extractor of that class.
C29_ClassifiedByPriority ==
    [][/\ ret'.op = "classify" =>
             IsClassOf(ret'.value, req'.url,
                       \E i \in 1..(Len(req'.url) - 3) :
                          /\ [k \in 0..3 |-> ToLower(req'.url[i + k])]
                                = [k \in 0..3 |-> <<".", "p", "d", "f">>[k + 1]]
                          /\ i + 3 = Len(req'.url)
                             \/ req'.url[i + 4] \in {"?", "#"})
       /\ DispatchedByClass]_vars

\* a video link that ends in .pdf was handled by the video extractor
C29_Witness ==
    /\ ret.op = "extract"
    /\ req.url = <<"h", "t", "t", "p", "s", ":", "/", "/", "y", "o", "u", "t", "u", ".", "b", "e", "/", "v", "1", ".", "p", "d", "f">>
    /\ IsPdfUrl(req.url)
    /\ ret.processor = "youtube"

(***************************************************************************)
(* Properties of the order of a user's list.                               *)
(***************************************************************************)
\* the doc_ids of a list, in its order
IdSeq(list) == [i \in 1..Len(list) |-> list[i].doc_id]

\* C24: the documents of the list stand in the order of their first upsert:
\* an upsert that returns for a link already in the list leaves every
\* document at its position, one for a new link adds its document at the
\* end, a delete that returns leaves the other documents in their order,
\* and the list returned is the stored one.
C24_ListOrder ==
    [][LET before == IdSeq(GetDocuments)
           after == IdSeq(GetDocuments')
       IN /\ (ret'.op = "add" /\ clock' # clock /\ ret'.status = "returned") =>
                /\ ret'.doc_id \in Range(before) => after = before
                /\ ret'.doc_id \notin Range(before) =>
                      after = Append(before, ret'.doc_id)
                /\ \E i \in 1..Len(after) : GetDocuments'[i] = ret'.document
          /\ (ret'.op = "delete" /\ ret'.status = "returned") =>
                after = SelectSeq(before, LAMBDA id : id # ret'.doc_id)
          /\ ret'.op = "list" =>
                /\ ret'.value = GetDocuments
                /\ after = before]_vars

\* the first of two documents was upserted again after the second and is
\* still the first
C24_Witness ==
    /\ ret.op = "add"
    /\ ret.status = "returned"
    /\ ret.doc_id = Md5(WebUrl)
    /\ IdSeq(GetDocuments) = <<Md5(WebUrl), Md5(PdfUrl)>>
    /\ GetDocuments[1] = ret.document
    /\ GetDocuments[1].added_at > GetDocuments[2].added_at

(***************************************************************************)
(* Properties of the storage of the users.                                 *)
(***************************************************************************)
\* the last n elements of a list, or all of it when it has fewer
LastN(list, n) ==
    SubSeq(list, Len(list) - Min({n, Len(list)}) + 1, Len(list))

\* C23: the transcript of a user holds the messages saved for the user in
\* the order saved; get_messages without limit returns all of them in that
\* order, and with limit n, for any n >= 0, the last min(n, total) of them.
C23_TranscriptTail ==
    /\ \A user \in Users :
          ReadMessages(MessagesFile(UserId(user))) = sent[user]
    /\ (ret.op = "messages" /\ ret.status = "returned") =>
          ret.value = IF ret.limit = None THEN sent[ret.user]
                      ELSE LastN(sent[ret.user], ret.limit[1])

\* what the storage holds for a user: the Document list, the conversation
\* transcript and the vector index
UserData(user) ==
    <<disk[DocumentsFile(UserId(user))],
      disk[MessagesFile(UserId(user))],
      chroma[GetUserDbPath(UserId(user))]>>

\* C21: a call made for one user (upsert, delete, clear, query, list,
\* message append or read) leaves the Document list, the vector index and
\* the transcript of every other user unchanged, and the documents a list
\* or a query returns to a user are documents this user's upserts built.
C21_UserIsolation ==
    [][("user" \in DOMAIN ret') =>
          /\ \A user \in Users \ {ret'.user} :
                UserData(user)' = UserData(user)
          /\ ret'.op = "list" =>
                \A i \in 1..Len(ret'.value) :
                   ret'.value[i] \in upserted'[ret'.user]
          /\ (ret'.op = "query" /\ ret'.status = "returned") =>
                \A i \in 1..Len(ret'.value) :
                   \E document \in upserted'[ret'.user] :
                      /\ ret'.value[i].id = document.doc_id
                      /\ ret'.value[i].metadata = EntryMetadata(document)]_vars

\* two users have upserted the same link; the one has deleted the document,
\* the other still has it in the list and in the index
C21_Witness ==
    /\ ret.op = "delete"
    /\ ret.user = 7
    /\ ret.status = "returned"
    /\ ret.value
    /\ UserData(7) = <<WriteDocuments(<<>>), None, <<>>>>
    /\ Ids(ReadDocuments(DocumentsFile(UserId(71)))) = {Md5(WebUrl)}
    /\ Ids(chroma[GetUserDbPath(UserId(71))]) = {Md5(WebUrl)}
    /\ upserted[7] # upserted[71]

(***************************************************************************)
(* Properties of add_document calls that run at the same time.             *)
(***************************************************************************)
\* every call has ended, and two at least have returned
CallsComplete ==
    /\ \A call \in Calls : calls[call].pc \in {"done", "raised"}
    /\ \E a, b \in Calls :
          a # b /\ calls[a].pc = "done" /\ calls[b].pc = "done"

\* the Document store and the vector index hold one record each for the
\* link of the calls
OneRecordEach ==
    /\ Len(GetDocuments) = 1
    /\ Len(collection) = 1
    /\ GetDocuments[1].doc_id = Md5(WebUrl)
    /\ collection[1].doc_id = Md5(WebUrl)

C31_Tier3OnlyAfterEmptyTier2 ==
    [][/\ (pc = "tier2" /\ pc' # "tier2") =>
             /\ pc' = "tier3" <=> (~Truthy(subtitle_text') /\ ~rate_limited')
             /\ pc' = "tier3" <=> langs_to_try' # <<>>
             /\ rate_limited' <=> t2log' = <<"rl", "rl", "rl">>
             /\ Truthy(subtitle_text') =>
                   /\ Last(t2log') = "text"
                   /\ ~rate_limited'
                   /\ pc' = "summary"
                   /\ result'.status = "returned"
                   /\ result'.text =
                         Heading \o NormalizeTranscript(subtitle_text'[1])
             /\ lastDl' = NoDownload
       /\ (pc' = "tier3" /\ pc # "tier3") => pc = "tier2"
       /\ (lastDl' # lastDl /\ lastDl' # NoDownload) => pc = "tier3"
       /\ pc = "summary" => (lastDl' = lastDl /\ result' = result)]_vars

\* two rate-limited calls and a third that gave text: the extraction
\* returned with no download made
C31_Witness ==
    /\ t2log = <<"rl", "rl", "text">>
    /\ pc = "done"
    /\ result.status = "returned"
    /\ result.text = Heading \o <<"h", "i", " ", "y", "o", "u">>
    /\ ~rate_limited
    /\ langs_to_try = <<>>
    /\ lastDl = NoDownload

\* the track names a listing of the transcript service is drawn from
TrackNames == CaptionLangs \cup {OrigTrack(De), OrigTrack(Fr)}

\* C32: whatever tracks the service lists, tier 2 picks the English track
\* when there is one; else, for a detected language other than English, the
\* track of that language, else its "-orig" track; else the first listed
\* track; and it finds no track only when none is listed.  The priority
\* list a call has built is English alone, or English, the detected
\* language and its "-orig" track.
C32_TrackPriority ==
    pc = "tier2" =>
       LET lang == original_lang
           foreign == lang # NoLang /\ lang # En
       IN /\ priority_langs \in {<<>>, PriorityLangs(lang)}
          /\ PriorityLangs(lang) =
                IF foreign THEN <<En, lang, OrigTrack(lang)>> ELSE <<En>>
          /\ \A tracks \in KeyLists(TrackNames, 2) :
                LET chosen == SelectTranscript(tracks, PriorityLangs(lang))
                    has(l) == l \in Range(tracks)
                IN /\ chosen = None <=> tracks = <<>>
                   /\ has(En) => chosen = Some(En)
                   /\ (~has(En) /\ foreign /\ has(lang)) =>
                         chosen = Some(lang)
                   /\ (~has(En) /\ foreign /\ ~has(lang)
                          /\ has(OrigTrack(lang))) =>
                         chosen = Some(OrigTrack(lang))
                   /\ (/\ tracks # <<>>
                       /\ ~has(En)
                       /\ ~(foreign /\ (has(lang) \/ has(OrigTrack(lang))))) =>
                         chosen = Some(tracks[1])

\* a call for a video in German picked a track and was rate-limited on
\* fetching it; the next call is due
C32_Witness ==
    /\ pc = "tier2"
    /\ original_lang = De
    /\ t2log = <<"rl">>
    /\ priority_langs = <<En, De, OrigTrack(De)>>
    /\ SelectTranscript(<<Fr, OrigTrack(De)>>, priority_langs)
          = Some(OrigTrack(De))
    /\ SelectTranscript(<<Fr, OrigTrack(Fr)>>, priority_langs) = Some(Fr)

\* the order of the stages of one extraction
Rank(p) ==
    CASE p = "idle" -> 0
      [] p = "probe" -> 1
      [] p = "tier2" -> 2
      [] p = "tier3" -> 3
      [] p = "summary" -> 4
      [] p = "done" -> 5

\* the extraction has returned or raised
Ended == pc \in {"summary", "done"} /\ result.status \in {"returned", "raised"}

\* C33: an extraction whose upstream calls all return ends, returning or
\* raising; on the way it makes one metadata probe, at most three calls of
\* the transcript service and at most three downloads for each candidate
\* language, each language is tried once, in the order of the list, and no
\* stage is entered again once left.
C33_Terminates ==
    /\ [][/\ Len(t2log') <= 3
          /\ dlCount' <= 3
          /\ langIdx' <= Len(langs_to_try')
          /\ pc' = "summary" => result'.status = "returned"
          /\ pc' = "done" => result'.status \in {"returned", "raised"}
          /\ pc \notin {"idle", "done"} => Rank(pc') >= Rank(pc)
          /\ pc = "probe" => pc' = "tier2"
          /\ (pc = "tier2" /\ pc' = "tier2") =>
                Len(t2log') = Len(t2log) + 1
          /\ (pc = "tier3" /\ pc' = "tier3") =>
                /\ langs_to_try' = langs_to_try
                /\ \/ /\ langIdx' = langIdx
                      /\ dlAttempt' = dlAttempt + 1
                      /\ dlCount' = dlAttempt'
                   \/ /\ langIdx' = langIdx + 1
                      /\ dlAttempt' = 0]_vars
    /\ (pc \in {"probe", "tier2", "tier3"}) ~> Ended

\* an extraction that used every call it may make and then raised: three
\* calls of the transcript service, three languages, three downloads of the
\* last one
C33_Witness ==
    /\ pc = "done"
    /\ result.status = "raised"
    /\ Len(t2log) = 3
    /\ Len(langs_to_try) = 3
    /\ langIdx = 3
    /\ dlCount = 3
    /\ Len(sleeps) = 2

\* C39: after a probe that succeeded without a detected language (the key
\* absent, or its value null) the original language is "en"; the candidate
\* list of tier 3 holds language codes only, and so does every download.
C39_ActualLanguages ==
    /\ (/\ pc \notin {"idle", "probe"}
        /\ info # NoInfo
        /\ ("language" \notin DOMAIN info \/ info.language = NoLang)) =>
          original_lang = En
    /\ \A k \in 1..Len(langs_to_try) : langs_to_try[k] \notin {NoLang, <<"">>}
    /\ lastDl.kind # "none" => lastDl.lang \notin {NoLang, <<"">>}

(***************************************************************************)
(* Properties of the two stores of an upsert.                              *)
(***************************************************************************)
\* C34: an add_document that created or changed the Document of a doc_id in
\* the Document store has returned and left an entry of that doc_id in the
\* collection: the list never gains a Document whose entry was not written.
C34_DocumentOnlyWithEntry ==
    [][(/\ clock' # clock
        /\ ret'.op = "add"
        /\ documents_file' # documents_file) =>
           /\ ret'.status = "returned"
           /\ IdxOf(collection', ret'.doc_id) # {}
           /\ IdxOf(GetDocuments', ret'.doc_id) # {}]_vars

\* what a returned extraction carries after the heading
Body == SubSeq(result.text, Len(Heading) + 1, Len(result.text))

\* C35: a returned extraction is the heading followed by a transcript that
\* is not empty, neither starts nor ends with whitespace and has no two
\* whitespace characters in a row; a tier result of whitespace alone is not
\* returned.
C35_NonEmptyTranscript ==
    result.status = "returned" =>
       /\ StartsWith(result.text, Heading)
       /\ Body # <<>>
       /\ ~IsSpace(Body[1])
       /\ ~IsSpace(Body[Len(Body)])
       /\ \A k \in 1..(Len(Body) - 1) : ~(IsSpace(Body[k]) /\ IsSpace(Body[k + 1]))
       /\ Strip(subtitle_text[1]) # <<>>

(***************************************************************************)
(* Properties of calls that run at a time.                                 *)
(***************************************************************************)
\* C36: the name a handle call has got for its video is the title its own
\* video's metadata holds, or the name made of its own video id, and the
\* duration it reports is that of its own video's metadata, or Unknown:
\* neither is taken from the metadata of the video of another call.
C36_OwnMetadata ==
    \A request \in Requests :
       /\ handles[request].pc \in {"summary", "done"} =>
             handles[request].doc_name \in
                {MetaOf(request).title,
                 <<"Y", "o", "u", "T", "u", "b", "e", " ", "V", "i", "d", "e", "o", " ">> \o MetaOf(request).id}
       /\ handles[request].pc = "done" =>
             handles[request].duration \in
                {VideoDuration(MetaOf(request)), Unknown}

\* C37: once every call has returned, the Document store holds the
\* Document of each add_document call and, if a delete_document call was
\* made, not the document it was to delete: no call's write of the file
\* has undone that of another.
C37_NoLostUpdate ==
    (\A call \in Calls : calls[call].pc \in {"done", "deleted"}) =>
       \A call \in Calls :
          IF calls[call].pc = "done"
          THEN IdxOf(GetDocuments, calls[call].document.doc_id) # {}
          ELSE IdxOf(GetDocuments, calls[call].document.doc_id) = {}

(***************************************************************************)
(* Properties of the commands.                                             *)
(***************************************************************************)
\* the numerals a user may write the number n with
Numerals(n) == {Decimal(n), <<"+">> \o Decimal(n), <<"0">> \o Decimal(n)}

\* C38: /delete with the number of a listed document (counted from 1) goes
\* for that document and no other: every other Document and every other
\* entry stays where it was, the document is gone from both stores when
\* both removals were made, and it is the one the latest /list showed under
\* that number if the list has not changed since.  /delete with no
\* argument, with an argument that is no number or with a number that is
\* not one of a listed document leaves both stores as they were.
C38_DeleteByNumber ==
    [][(command'.name = "delete" /\ clock' = clock) =>
          LET args == command'.args
              documents == GetDocuments
              listed == {n \in 1..Len(documents) :
                            args # <<>> /\ args[1] \in Numerals(n)}
          IN IF listed # {}
             THEN \A n \in listed :
                     LET id == documents[n].doc_id
                     IN /\ ret'.op = "delete"
                        /\ ret'.doc_id = id
                        /\ Len(Without(documents, id)) = Len(documents) - 1
                        /\ GetDocuments' \in {documents, Without(documents, id)}
                        /\ collection' \in {collection, Without(collection, id)}
                        /\ (ret'.status = "returned" /\ ret'.embedding_deleted) =>
                              /\ GetDocuments' = Without(documents, id)
                              /\ collection' = Without(collection, id)
                              /\ command'.reply = "deleted"
                              /\ command'.items = <<documents[n].title>>
                        /\ (command.name = "list"
                               /\ command.items = Shown(documents)) =>
                              /\ command.items[n].number \in Numerals(n)
                              /\ command.items[n].url = documents[n].url
                              /\ \A i \in 1..Len(GetDocuments') :
                                    GetDocuments'[i].url # command.items[n].url
                                    \/ GetDocuments' = documents
             ELSE /\ documents_file' = documents_file
                  /\ collection' = collection
                  /\ command'.reply \in {"usage", "invalid number",
                                         "invalid document number"}]_vars

\* two documents were listed and /delete 1 removed the first from both
\* stores; the second is left
C38_Witness ==
    /\ command.name = "delete"
    /\ command.args = <<<<"1">>>>
    /\ command.reply = "deleted"
    /\ command.items = <<<<"T">>>>
    /\ ret.status = "returned"
    /\ ret.embedding_deleted
    /\ Len(GetDocuments) = 1
    /\ Len(collection) = 1
    /\ GetDocuments[1].added_at = 1
    /\ collection[1].doc_id = GetDocuments[1].doc_id

====
